---- MODULE Spec2Model ----
(***************************************************************************)
(* Model of the activity aggregation engine of github-activities:          *)
(*   GitHubClient._aggregate_by_period and                                 *)
(*   GitHubClient.get_user_activity_summary (github_client.py).            *)
(*                                                                         *)
(* Representation                                                          *)
(*   datetime      an integer number of ticks, TicksPerDay ticks per day;  *)
(*                 tick div TicksPerDay is the proleptic Gregorian ordinal *)
(*                 of the day (datetime.toordinal()).                      *)
(*   Optional[x]   <<>> for None, <<x>> for a value.                       *)
(*   str           a sequence of ASCII code points, so that string order   *)
(*                 is lexicographic order on code points as in Python.     *)
(*   dict record   a function from field names to values; a field is       *)
(*                 present iff its name is in the DOMAIN.                  *)
(*   field value   [kind, at]: kind "iso" is a string datetime.fromisoformat*)
(*                 accepts (denoting the datetime at), "text" a string it  *)
(*                 rejects, "none" the value None, "int" a number.         *)
(*   series value  [kind, n, count]: kind "int" is the Python int n;       *)
(*                 kind "dict" is the dict {metric_type: n, 'count': count}*)
(***************************************************************************)
EXTENDS Integers, Sequences, FiniteSets, TLC

(***************************************************************************)
(* Bounds of the model.                                                    *)
(***************************************************************************)
TicksPerDay == 2
\* since ranges over the SinceDays days starting at WindowStart
SinceDays == 40
\* until is at most MaxSpanDays days after since
MaxSpanDays == 36
\* longest record list given to one aggregation
MaxRecords == 2
\* longest answer of a commit search, the one longer than the preview apart
MaxCommits == 2
\* longest answer of the other searches, the one longer than the preview apart
MaxFetched == 1
\* longest series given to the trend analysis, the examples apart
MaxPoints == 6
\* number of days after FirstKeyDay whose week keys are converted
KeyDays == 800
\* most users of one comparison
MaxUsers == 3
\* most items of one issue search
MaxItems == 3
\* the integers of a week key are told apart below this value; every larger
\* one is a year or a week number outside the calendar
IntCap == 100000000

(***************************************************************************)
(* Calendar arithmetic of Python's datetime (proleptic Gregorian).         *)
(***************************************************************************)
_is_leap(y) == (y % 4 = 0) /\ ((y % 100 # 0) \/ (y % 400 = 0))

_days_before_year(y) ==
    LET p == y - 1 IN p * 365 + (p \div 4) - (p \div 100) + (p \div 400)

_days_in_month(y, m) ==
    IF m = 2 THEN (IF _is_leap(y) THEN 29 ELSE 28)
    ELSE IF m \in {4, 6, 9, 11} THEN 30 ELSE 31

_DAYS_BEFORE_MONTH == <<0, 31, 59, 90, 120, 151, 181, 212, 243, 273, 304, 334>>

_days_before_month(y, m) ==
    _DAYS_BEFORE_MONTH[m] + (IF m > 2 /\ _is_leap(y) THEN 1 ELSE 0)

_ymd2ord(y, m, d) == _days_before_year(y) + _days_before_month(y, m) + d

\* year, month and day of the day with ordinal n, by the 400/100/4/1-year
\* cycles of the calendar
_ord2ymd(n) ==
    LET n0 == n - 1
        n400 == n0 \div 146097
        r400 == n0 % 146097
        n100 == r400 \div 36524
        r100 == r400 % 36524
        n4 == r100 \div 1461
        r4 == r100 % 1461
        n1 == r4 \div 365
        r1 == r4 % 365
        year == n400 * 400 + 1 + n100 * 100 + n4 * 4 + n1
    IN IF n1 = 4 \/ n100 = 4
       THEN [year |-> year - 1, month |-> 12, day |-> 31]
       ELSE LET guess == (r1 + 50) \div 32
                late == _days_before_month(year, guess) > r1
                month == IF late THEN guess - 1 ELSE guess
            IN [year |-> year, month |-> month,
                day |-> r1 - _days_before_month(year, month) + 1]

YearOf(n) == _ord2ymd(n).year
MonthOf(n) == _ord2ymd(n).month
DayOf(n) == _ord2ymd(n).day

\* date.weekday(): Monday is 0
weekday(n) == (n + 6) % 7

\* tm_yday - 1: days since January 1st
YDay(n) == n - _days_before_year(YearOf(n)) - 1

\* datetime(y, m, d) at midnight, and timedelta(days = k)
datetime(y, m, d) == _ymd2ord(y, m, d) * TicksPerDay
\* datetime.MINYEAR, datetime.MAXYEAR and the ordinal of datetime.max
MINYEAR == 1
MAXYEAR == 9999
_MAXORDINAL == _ymd2ord(MAXYEAR, 12, 31)
timedelta(k) == k * TicksPerDay
Ordinal(t) == t \div TicksPerDay

(***************************************************************************)
(* Strings.                                                                *)
(***************************************************************************)
Digit(n) == 48 + n
Dash == 45
UpperW == 87
TwoDigits(n) == <<Digit((n \div 10) % 10), Digit(n % 10)>>

\* the decimal digits of n >= 0, without padding
RECURSIVE Decimal(_)
Decimal(n) == IF n < 10 THEN <<Digit(n)>> ELSE Decimal(n \div 10) \o <<Digit(n % 10)>>

\* Python's str < str: lexicographic on code points, a proper prefix is smaller
RECURSIVE LessFrom(_, _, _)
LessFrom(a, b, i) ==
    IF i > Len(a) THEN i <= Len(b)
    ELSE IF i > Len(b) THEN FALSE
    ELSE IF a[i] = b[i] THEN LessFrom(a, b, i + 1)
    ELSE a[i] < b[i]

StrLess(a, b) == LessFrom(a, b, 1)

\* the ISO 8601 week number (%V) in place of %W: the last days of December
\* may be in week 1, the first days of January in week 52
WeekOfYear_IsoWeek(n) ==
    LET w == (YDay(n) + 10 - weekday(n)) \div 7
    IN IF w < 1 THEN 52
       ELSE IF w = 53 /\ weekday(_ymd2ord(YearOf(n) + 1, 1, 1)) <= 3 THEN 1
       ELSE w

\* %W: week of the year, Monday first; days before the first Monday are week 0
WeekOfYear(n) == (YDay(n) + 7 - weekday(n)) \div 7

date_format(period_type) == IF period_type = "week" THEN "%Y-W%W" ELSE "%Y-%m"

\* %Y is the year without padding (the C library's), %W and %m have two digits
strftime(t, fmt) ==
    LET n == Ordinal(t) IN
    IF fmt = "%Y-W%W"
    THEN Decimal(YearOf(n)) \o <<Dash, UpperW>> \o TwoDigits(WeekOfYear(n))
    ELSE Decimal(YearOf(n)) \o <<Dash>> \o TwoDigits(MonthOf(n))

(***************************************************************************)
(* Python's float: IEEE 754 binary64, round to nearest, ties to even.      *)
(* A float is [sign, man, exp] of value (-1)^sign * man * 2^exp, where man *)
(* is 0 or has exactly 53 bits.  man is a pair <<hi, lo>> of value         *)
(* hi * 2^30 + lo, so that no intermediate number leaves the integers of   *)
(* the checker.  Subnormals, infinities and NaN are out of the range of    *)
(* the quotients of small integers computed here.                          *)
(***************************************************************************)
Limb == 2^30

BigZero == <<0, 0>>
BigLess(a, b) == a[1] < b[1] \/ (a[1] = b[1] /\ a[2] < b[2])
BigAdd(a, b) ==
    LET lo == a[2] + b[2] IN
    IF lo >= Limb THEN <<a[1] + b[1] + 1, lo - Limb>> ELSE <<a[1] + b[1], lo>>
\* a - b, for a >= b
BigSub(a, b) ==
    IF a[2] >= b[2] THEN <<a[1] - b[1], a[2] - b[2]>>
    ELSE <<a[1] - b[1] - 1, a[2] + Limb - b[2]>>
BigDouble(a) == BigAdd(a, a)
BigHalf(a) == <<a[1] \div 2, (a[1] % 2) * (Limb \div 2) + (a[2] \div 2)>>
BigOdd(a) == a[2] % 2 = 1
\* the sticky bit: a lost nonzero remainder is kept in the last bit
Jam(a, lost) == IF lost /\ ~BigOdd(a) THEN BigAdd(a, <<0, 1>>) ELSE a

\* 2^52 and 2^53: a normal mantissa m has MinMan <= m < TopMan
MinMan == <<2^22, 0>>
TopMan == <<2^23, 0>>

FloatZero == [sign |-> 0, man |-> BigZero, exp |-> 0]
IsZero(x) == x.man = BigZero

\* v * 2^e for v >= 2^52, rounded to 53 bits; rbit is the last bit shifted
\* out and sticky tells whether a bit shifted out before it was set
RECURSIVE RoundShift(_, _, _, _, _)
RoundShift(sign, v, e, rbit, sticky) ==
    IF BigLess(v, TopMan)
    THEN IF rbit /\ (sticky \/ BigOdd(v))
         THEN LET up == BigAdd(v, <<0, 1>>) IN
              IF up = TopMan THEN [sign |-> sign, man |-> MinMan, exp |-> e + 1]
              ELSE [sign |-> sign, man |-> up, exp |-> e]
         ELSE [sign |-> sign, man |-> v, exp |-> e]
    ELSE RoundShift(sign, BigHalf(v), e + 1, BigOdd(v), sticky \/ rbit)

\* n.man * 2^n.exp for n.man > 0 whose low bits are all present: scaled up to
\* 53 bits
RECURSIVE NormalizeLeft(_)
NormalizeLeft(n) ==
    IF BigLess(n.man, MinMan)
    THEN NormalizeLeft([man |-> BigDouble(n.man), exp |-> n.exp - 1])
    ELSE n

\* (-1)^sign * v * 2^e as a float, correctly rounded
Round(sign, v, e) ==
    IF v = BigZero THEN FloatZero
    ELSE LET n == NormalizeLeft([man |-> v, exp |-> e])
         IN RoundShift(sign, n.man, n.exp, FALSE, FALSE)

\* float(n) of an int n
float(n) ==
    IF n < 0 THEN Round(1, <<(-n) \div Limb, (-n) % Limb>>, 0)
    ELSE Round(0, <<n \div Limb, n % Limb>>, 0)

\* magnitude order and the order of floats
MagLess(x, y) ==
    IF IsZero(y) THEN FALSE
    ELSE IF IsZero(x) THEN TRUE
    ELSE x.exp < y.exp \/ (x.exp = y.exp /\ BigLess(x.man, y.man))
FloatLess(x, y) ==
    IF IsZero(x) /\ IsZero(y) THEN FALSE
    ELSE IF x.sign # y.sign THEN x.sign = 1
    ELSE IF x.sign = 0 THEN MagLess(x, y) ELSE MagLess(y, x)
FloatAbs(x) == [x EXCEPT !.sign = 0]

\* k more bits of the quotient by q, from the bits d.bits found so far and
\* the remainder d.rest < 2q left
RECURSIVE DivBits(_, _, _)
DivBits(d, q, k) ==
    IF k = 0 THEN d
    ELSE IF BigLess(d.rest, q)
         THEN DivBits([bits |-> BigDouble(d.bits), rest |-> BigDouble(d.rest)],
                      q, k - 1)
         ELSE DivBits([bits |-> BigAdd(BigDouble(d.bits), <<0, 1>>),
                       rest |-> BigDouble(BigSub(d.rest, q))], q, k - 1)

\* x / y of two floats, y nonzero: 56 bits of the quotient of the mantissas,
\* the remainder as sticky bit, rounded
FloatDiv(x, y) ==
    IF IsZero(x) THEN FloatZero
    ELSE LET d == DivBits([bits |-> BigZero, rest |-> x.man], y.man, 56)
         IN Round((x.sign + y.sign) % 2, Jam(d.bits, d.rest # BigZero),
                  x.exp - y.exp - 55)

\* v / 2^k with the bits shifted out kept as sticky bit
RECURSIVE ShiftRightSticky(_, _)
ShiftRightSticky(v, k) ==
    IF k = 0 \/ v = BigZero \/ v = <<0, 1>> THEN v
    ELSE ShiftRightSticky(Jam(BigHalf(v), BigOdd(v)), k - 1)

BigTimes8(v) == BigDouble(BigDouble(BigDouble(v)))

\* |x| - |y| for |x| >= |y|, with three guard bits
MagSub(sign, x, y) ==
    IF IsZero(y) THEN [x EXCEPT !.sign = sign]
    ELSE Round(sign,
               BigSub(BigTimes8(x.man),
                      ShiftRightSticky(BigTimes8(y.man), x.exp - y.exp)),
               x.exp - 3)

\* x - y of two floats of the same sign
FloatSub(x, y) ==
    IF MagLess(x, y) THEN MagSub(1 - y.sign, y, x)
    ELSE IF MagLess(y, x) THEN MagSub(x.sign, x, y)
    ELSE FloatZero

\* x * 1.5 and x * 100: the exact products 3 * man * 2^(exp-1) and
\* 25 * man * 2^(exp+2), rounded
FloatTimes1_5(x) == Round(x.sign, BigAdd(x.man, BigDouble(x.man)), x.exp - 1)
FloatTimes100(x) ==
    Round(x.sign,
          BigAdd(BigAdd(BigTimes8(BigDouble(x.man)), BigTimes8(x.man)), x.man),
          x.exp + 2)

\* int(x) of a float: truncation towards zero.  The value is the two limbs
\* of the shifted mantissa put together
RECURSIVE ShiftRight(_, _)
ShiftRight(v, k) ==
    IF k = 0 \/ v = BigZero THEN v ELSE ShiftRight(BigHalf(v), k - 1)
int(x) ==
    LET limbs == IF x.exp >= 0 THEN x.man ELSE ShiftRight(x.man, 0 - x.exp)
        magnitude == (limbs[1] * Limb + limbs[2])
                     * (IF x.exp > 0 THEN 2^(x.exp) ELSE 1)
    IN IF x.sign = 1 THEN 0 - magnitude ELSE magnitude

(***************************************************************************)
(* _aggregate_by_period.  The dict `aggregated` is a sequence of           *)
(* <<key, value>> pairs in insertion order, as a Python dict iterates.     *)
(***************************************************************************)
None == <<>>
Some(x) == <<x>>

IntValue(n) == [kind |-> "int", n |-> n, count |-> 0]
DictValue(n, c) == [kind |-> "dict", n |-> n, count |-> c]

Range(q) == {q[i] : i \in 1..Len(q)}
Keys(d) == {d[i][1] : i \in 1..Len(d)}
IndexOf(d, k) == CHOOSE i \in 1..Len(d) : d[i][1] = k
Lookup(d, k) == d[IndexOf(d, k)][2]
Store(d, k, v) ==
    IF k \in Keys(d) THEN [d EXCEPT ![IndexOf(d, k)] = <<k, v>>]
    ELSE Append(d, <<k, v>>)

\* lines 340-347: the date field of an item, None when it has none
DateField(item) ==
    IF "date" \in DOMAIN item THEN Some(item.date)
    ELSE IF "created_at" \in DOMAIN item THEN Some(item.created_at)
    ELSE IF "reviewed_at" \in DOMAIN item THEN Some(item.reviewed_at)
    ELSE None

\* line 351: date_str.replace('Z', '+00:00') then datetime.fromisoformat;
\* the outcome is the parsed datetime or the exception raised
ParseDate(date_str) ==
    IF date_str.kind = "iso" THEN [exc |-> "None", at |-> date_str.at]
    ELSE IF date_str.kind = "text" THEN [exc |-> "ValueError", at |-> 0]
    ELSE [exc |-> "AttributeError", at |-> 0]

\* a bucket created with the item already counted
InitBucket_StartAtOne(aggregated, period_key, metric_type) ==
    IF period_key \in Keys(aggregated) THEN aggregated
    ELSE IF metric_type # None
         THEN Append(aggregated, <<period_key, DictValue(0, 1)>>)
         ELSE Append(aggregated, <<period_key, IntValue(1)>>)

\* lines 354-359: the bucket of a period key, created on first use
InitBucket(aggregated, period_key, metric_type) ==
    IF period_key \in Keys(aggregated) THEN aggregated
    ELSE IF metric_type # None
         THEN Append(aggregated, <<period_key, DictValue(0, 0)>>)
         ELSE Append(aggregated, <<period_key, IntValue(0)>>)

\* AddToBucket with the field of the item put in place of the sum
AddToBucket_LastMetric(aggregated, period_key, item, metric_type) ==
    LET v == Lookup(aggregated, period_key) IN
    IF metric_type # None /\ metric_type[1] \in DOMAIN item
    THEN Store(aggregated, period_key,
               [v EXCEPT !.n = item[metric_type[1]], !.count = @ + 1])
    ELSE IF v.kind = "dict"
         THEN Store(aggregated, period_key, [v EXCEPT !.count = @ + 1])
         ELSE Store(aggregated, period_key, [v EXCEPT !.n = @ + 1])

\* AddToBucket with a record that lacks the field left out of the count
AddToBucket_SkipMissing(aggregated, period_key, item, metric_type) ==
    LET v == Lookup(aggregated, period_key) IN
    IF metric_type # None
    THEN IF metric_type[1] \in DOMAIN item
         THEN Store(aggregated, period_key,
                    [v EXCEPT !.n = @ + item[metric_type[1]], !.count = @ + 1])
         ELSE aggregated
    ELSE Store(aggregated, period_key, [v EXCEPT !.n = @ + 1])

\* lines 361-370: one item added to its bucket
AddToBucket(aggregated, period_key, item, metric_type) ==
    LET v == Lookup(aggregated, period_key) IN
    IF metric_type # None /\ metric_type[1] \in DOMAIN item
    THEN Store(aggregated, period_key,
               [v EXCEPT !.n = @ + item[metric_type[1]], !.count = @ + 1])
    ELSE IF v.kind = "dict"
         THEN Store(aggregated, period_key, [v EXCEPT !.count = @ + 1])
         ELSE Store(aggregated, period_key, [v EXCEPT !.n = @ + 1])

\* lines 338-372: the body of the loop over data, for one item;
\* st is [aggregated, exc], exc the exception that left the function
AggregateItem(st, item, period_type, metric_type) ==
    IF st.exc # "None" THEN st
    ELSE IF DateField(item) = None THEN st
    ELSE LET parsed == ParseDate(DateField(item)[1]) IN
         IF parsed.exc = "AttributeError" THEN [st EXCEPT !.exc = "AttributeError"]
         ELSE IF parsed.exc # "None" THEN st
         ELSE LET period_key == strftime(parsed.at, date_format(period_type)) IN
              [st EXCEPT !.aggregated =
                  AddToBucket(InitBucket(@, period_key, metric_type),
                              period_key, item, metric_type)]

RECURSIVE AggregateData(_, _, _, _)
AggregateData(st, data, period_type, metric_type) ==
    IF data = <<>> THEN st
    ELSE AggregateData(AggregateItem(st, Head(data), period_type, metric_type),
                       Tail(data), period_type, metric_type)

\* FillPeriodKey without the test `period_key not in aggregated`
FillPeriodKey_Overwrite(aggregated, current, period_type) ==
    Store(aggregated, strftime(current, date_format(period_type)), IntValue(0))

\* lines 379-381: one period of the gap fill
FillPeriodKey(aggregated, current, period_type) ==
    LET period_key == strftime(current, date_format(period_type)) IN
    IF period_key \in Keys(aggregated) THEN aggregated
    ELSE Append(aggregated, <<period_key, IntValue(0)>>)

\* NextPeriod with a month taken to be thirty days
NextPeriod_ThirtyDays(current, period_type) ==
    LET days == IF period_type = "week" THEN 7 ELSE 30 IN
    IF Ordinal(current) + days > _MAXORDINAL
    THEN [exc |-> "OverflowError", at |-> current]
    ELSE [exc |-> "None", at |-> current + timedelta(days)]

\* lines 384-390: the start of the next period, [exc, at].  Past the last
\* day of year 9999 the sum raises OverflowError (line 385) and
\* datetime(10000, 1, 1) raises ValueError (line 390)
NextPeriod(current, period_type) ==
    IF period_type = "week"
    THEN IF Ordinal(current) + 7 > _MAXORDINAL
         THEN [exc |-> "OverflowError", at |-> current]
         ELSE [exc |-> "None", at |-> current + timedelta(7)]
    ELSE LET n == Ordinal(current)
             year == YearOf(n) + (MonthOf(n) \div 12)
             month == (MonthOf(n) % 12) + 1
         IN IF year > MAXYEAR
            THEN [exc |-> "ValueError", at |-> current]
            ELSE [exc |-> "None", at |-> datetime(year, month, 1)]

\* lines 376-390: the gap-fill loop, [exc, aggregated]
RECURSIVE FillGaps(_, _, _, _)
FillGaps(aggregated, current, until, period_type) ==
    IF current <= until
    THEN LET next == NextPeriod(current, period_type) IN
         IF next.exc # "None"
         THEN [exc |-> next.exc,
               aggregated |-> FillPeriodKey(aggregated, current, period_type)]
         ELSE FillGaps(FillPeriodKey(aggregated, current, period_type),
                       next.at, until, period_type)
    ELSE [exc |-> "None", aggregated |-> aggregated]

\* list.sort(key=lambda x: x[0]): stable, ascending by key
RECURSIVE InsertSorted(_, _)
InsertSorted(sorted, pair) ==
    IF sorted = <<>> THEN <<pair>>
    ELSE IF StrLess(pair[1], Head(sorted)[1]) THEN <<pair>> \o sorted
    ELSE <<Head(sorted)>> \o InsertSorted(Tail(sorted), pair)

\* SortByKey that leaves the insertion order
SortByKey_Unsorted(pairs) == pairs

RECURSIVE SortByKey(_)
SortByKey(pairs) ==
    IF pairs = <<>> THEN <<>>
    ELSE InsertSorted(SortByKey(SubSeq(pairs, 1, Len(pairs) - 1)), pairs[Len(pairs)])

\* the function with the records outside a given window left out
_aggregate_by_period_InWindow(data, period_type, since, until, metric_type) ==
    LET inside == SelectSeq(data, LAMBDA item :
                     \/ since = None \/ until = None
                     \/ DateField(item) = None
                     \/ DateField(item)[1].kind # "iso"
                     \/ /\ since[1] <= DateField(item)[1].at
                        /\ DateField(item)[1].at <= until[1])
        st == AggregateData([aggregated |-> <<>>, exc |-> "None"],
                            inside, period_type, metric_type)
        filled == IF since # None /\ until # None
                  THEN FillGaps(st.aggregated, since[1], until[1], period_type)
                  ELSE [exc |-> "None", aggregated |-> st.aggregated]
    IN IF st.exc # "None" THEN [exc |-> st.exc, series |-> <<>>]
       ELSE IF filled.exc # "None" THEN [exc |-> filled.exc, series |-> <<>>]
       ELSE [exc |-> "None", series |-> SortByKey(filled.aggregated)]

\* the whole function: [exc, series]
_aggregate_by_period(data, period_type, since, until, metric_type) ==
    LET st == AggregateData([aggregated |-> <<>>, exc |-> "None"],
                            data, period_type, metric_type)
        filled == IF since # None /\ until # None
                  THEN FillGaps(st.aggregated, since[1], until[1], period_type)
                  ELSE [exc |-> "None", aggregated |-> st.aggregated]
    IN IF st.exc # "None" THEN [exc |-> st.exc, series |-> <<>>]
       ELSE IF filled.exc # "None" THEN [exc |-> filled.exc, series |-> <<>>]
       ELSE [exc |-> "None", series |-> SortByKey(filled.aggregated)]

(***************************************************************************)
(* The searches.  A search is [raised, items]: the items it gave, and      *)
(* whether the search, or the iteration over its pages after those items,  *)
(* raised GithubException.                                                 *)
(***************************************************************************)
SearchRaised == [raised |-> TRUE, items |-> <<>>]
SearchOf(items) == [raised |-> FALSE, items |-> items]

(***************************************************************************)
(* get_user_commits: the records built from a commit search.  A found      *)
(* commit is [at, stats]: its author date and, unless fetching its details *)
(* raised GithubException, Some of its [additions, deletions].             *)
(***************************************************************************)
CommitRecord(found) ==
    [date |-> [kind |-> "iso", at |-> found.at],
     additions |-> IF found.stats = None THEN 0 ELSE found.stats[1].additions,
     deletions |-> IF found.stats = None THEN 0 ELSE found.stats[1].deletions]

\* lines 113-141: the loop over the commits found
RECURSIVE CommitsOf(_)
CommitsOf(items) ==
    IF items = <<>>
    THEN [commits |-> <<>>, total_additions |-> 0, total_deletions |-> 0]
    ELSE LET n == Len(items)
             before == CommitsOf(SubSeq(items, 1, n - 1))
             rec == CommitRecord(items[n])
         IN [commits |-> Append(before.commits, rec),
             total_additions |-> before.total_additions + rec.additions,
             total_deletions |-> before.total_deletions + rec.deletions]

\* lines 107-154: when the search raises, an empty list with totals 0 is
\* returned, whatever was found before
get_user_commits(search) ==
    IF search.raised
    THEN [commits |-> <<>>, total_additions |-> 0, total_deletions |-> 0]
    ELSE CommitsOf(search.items)

(***************************************************************************)
(* get_user_pull_requests and get_user_issues: the records built from an   *)
(* issue search.  An item is [number, marker]; the marker tells           *)
(* what its pull_request attribute is: "absent" (no such      *)
(* attribute), "none", "empty" (a falsy value) or "set" (a truthy value).  *)
(* Of the record of an item the number is kept.                            *)
(***************************************************************************)
\* hasattr(issue, "pull_request") and issue.pull_request
IsPullRequest(issue) == issue.marker # "absent" /\ issue.marker = "set"

IssueRecord(issue) == [number |-> issue.number]

RecordsOf(items) == [i \in 1..Len(items) |-> IssueRecord(items[i])]

\* lines 187-206
get_user_pull_requests(search) ==
    IF search.raised THEN <<>>
    ELSE RecordsOf(SelectSeq(search.items, IsPullRequest))

\* every item of the search, the query having asked for issues
get_user_issues_Unfiltered(search) ==
    IF search.raised THEN <<>>
    ELSE RecordsOf(search.items)

\* lines 239-258
get_user_issues(search) ==
    IF search.raised THEN <<>>
    ELSE RecordsOf(SelectSeq(search.items, LAMBDA issue : ~IsPullRequest(issue)))

(***************************************************************************)
(* get_user_activity_summary.                                              *)
(***************************************************************************)
PreviewSize == 5
Preview(list) == SubSeq(list, 1, IF Len(list) < PreviewSize THEN Len(list) ELSE PreviewSize)

\* an enumeration of a set of strings, and sorted(set)
RECURSIVE SetToSeq(_)
SetToSeq(S) ==
    IF S = {} THEN <<>>
    ELSE LET x == CHOOSE y \in S : TRUE IN <<x>> \o SetToSeq(S \ {x})

RECURSIVE InsertString(_, _)
InsertString(sorted, k) ==
    IF sorted = <<>> THEN <<k>>
    ELSE IF StrLess(k, Head(sorted)) THEN <<k>> \o sorted
    ELSE <<Head(sorted)>> \o InsertString(Tail(sorted), k)

RECURSIVE SortStrings(_)
SortStrings(q) ==
    IF q = <<>> THEN <<>>
    ELSE InsertString(SortStrings(SubSeq(q, 1, Len(q) - 1)), q[Len(q)])

\* lines 487-494: total_contributions_dict[period] += count, for one series
RECURSIVE AddSeries(_, _)
AddSeries(dict, series) ==
    IF series = <<>> THEN dict
    ELSE AddSeries([dict EXCEPT ![Head(series)[1]] = @ + Head(series)[2].n], Tail(series))

\* AddAllSeries that forgets the last series, the reviews
AddAllSeries_WithoutLast(dict, series_list) ==
    AddSeries(AddSeries(AddSeries(dict, series_list[1]), series_list[2]), series_list[3])

\* lines 486-494: every series added to the dict
RECURSIVE AddAllSeries(_, _)
AddAllSeries(dict, series_list) ==
    IF series_list = <<>> THEN dict
    ELSE AddAllSeries(AddSeries(dict, Head(series_list)), Tail(series_list))

\* lines 478-481: the union of the keys of the series
AllPeriods(series_list) == UNION {Keys(series_list[i]) : i \in 1..Len(series_list)}

\* lines 478-498: the combined total_contributions series
TotalContributions(series_list) ==
    LET all_periods == AllPeriods(series_list)
        total_contributions_dict ==
            AddAllSeries([period \in all_periods |-> 0], series_list)
        order == SetToSeq(all_periods)
    IN SortByKey([i \in 1..Len(order) |->
                    <<order[i], IntValue(total_contributions_dict[order[i]])>>])

\* lines 524-529: dict.get(period, {}) then .get(field, 0) if it is a dict else 0
MetricOf(by_period, period) ==
    IF period \in Keys(by_period) /\ Lookup(by_period, period).kind = "dict"
    THEN Lookup(by_period, period).n
    ELSE 0

\* CodeChanges that reads the additions only
CodeChanges_AdditionsOnly(additions_by_period, deletions_by_period) ==
    LET periods == SortStrings(SetToSeq(Keys(additions_by_period)
                                        \cup Keys(deletions_by_period)))
    IN [i \in 1..Len(periods) |->
          <<periods[i], IntValue(MetricOf(additions_by_period, periods[i]))>>]

\* lines 512-531: the code_changes series
CodeChanges(additions_by_period, deletions_by_period) ==
    LET periods == SortStrings(SetToSeq(Keys(additions_by_period)
                                        \cup Keys(deletions_by_period)))
    IN [i \in 1..Len(periods) |->
          <<periods[i], IntValue(MetricOf(additions_by_period, periods[i])
                                 + MetricOf(deletions_by_period, periods[i]))>>]

\* the sum of a numeric field over the records that have it
RECURSIVE SumField(_, _)
SumField(records, field) ==
    IF records = <<>> THEN 0
    ELSE (IF field \in DOMAIN Head(records) THEN Head(records)[field] ELSE 0)
         + SumField(Tail(records), field)

\* the summary whose code changes are summed over the previewed commits only
SummaryCounts_OfPreviewedChanges(cs, prs, iss, rvs, totals) ==
    [commits_count |-> Len(cs),
     pull_requests_count |-> Len(prs),
     issues_count |-> Len(iss),
     reviews_count |-> Len(rvs),
     total_contributions |-> Len(cs) + Len(prs) + Len(iss) + Len(rvs),
     code_changes |-> [additions |-> SumField(Preview(cs), "additions"),
                       deletions |-> SumField(Preview(cs), "deletions"),
                       total |-> SumField(Preview(cs), "additions")
                                 + SumField(Preview(cs), "deletions")]]

\* the summary counts taken from the previews
SummaryCounts_OfPreview(cs, prs, iss, rvs, totals) ==
    [commits_count |-> Len(Preview(cs)),
     pull_requests_count |-> Len(Preview(prs)),
     issues_count |-> Len(Preview(iss)),
     reviews_count |-> Len(Preview(rvs)),
     total_contributions |->
         Len(Preview(cs)) + Len(Preview(prs)) + Len(Preview(iss)) + Len(Preview(rvs)),
     code_changes |-> [additions |-> totals.total_additions,
                       deletions |-> totals.total_deletions,
                       total |-> totals.total_additions + totals.total_deletions]]

\* lines 450-461: result["summary"]
SummaryCounts(cs, prs, iss, rvs, totals) ==
    [commits_count |-> Len(cs),
     pull_requests_count |-> Len(prs),
     issues_count |-> Len(iss),
     reviews_count |-> Len(rvs),
     total_contributions |-> Len(cs) + Len(prs) + Len(iss) + Len(rvs),
     code_changes |-> [additions |-> totals.total_additions,
                       deletions |-> totals.total_deletions,
                       total |-> totals.total_additions + totals.total_deletions]]

\* lines 434-468: the result without aggregation
BaseReport(cs, prs, iss, rvs, totals, s, u, user) ==
    [user |-> user,
     activity_period |-> [since |-> s, until |-> u, days |-> (u - s) \div TicksPerDay],
     summary |-> SummaryCounts(cs, prs, iss, rvs, totals),
     details |-> [commits |-> Preview(cs), pull_requests |-> Preview(prs),
                  issues |-> Preview(iss), reviews |-> Preview(rvs)]]

\* the exception of the first call of the sequence that raised, if any
RECURSIVE FirstException(_)
FirstException(calls) ==
    IF calls = <<>> THEN "None"
    ELSE IF Head(calls).exc # "None" THEN Head(calls).exc
    ELSE FirstException(Tail(calls))

\* lines 500-506 and 533: result["aggregated"]
AggregatedReport(cs, prs, iss, rvs, additions_by_period, deletions_by_period) ==
    [total_contributions |-> TotalContributions(<<cs, prs, iss, rvs>>),
     commits |-> cs,
     pull_requests |-> prs,
     issues |-> iss,
     reviews |-> rvs,
     code_changes |-> CodeChanges(additions_by_period, deletions_by_period)]

\* _aggregate_by_period over the window for each list with its metric_type
RECURSIVE AggregateEach(_, _, _, _, _)
AggregateEach(lists, metrics, ptype, s, u) ==
    IF lists = <<>> THEN <<>>
    ELSE <<_aggregate_by_period(Head(lists), ptype, Some(s), Some(u), Head(metrics))>>
         \o AggregateEach(Tail(lists), Tail(metrics), ptype, s, u)

\* lines 473-476 and 509-510: the six calls of _aggregate_by_period, in the
\* order commits, pull_requests, issues, reviews, additions, deletions
AggregateAll(cs, prs, iss, rvs, ptype, s, u) ==
    AggregateEach(<<cs, prs, iss, rvs, cs, cs>>,
                  <<None, None, None, None, Some("additions"), Some("deletions")>>,
                  ptype, s, u)

\* lines 471-533: what is built from the six calls; exc is the exception
\* that left the function, if any
BuildAggregated(calls) ==
    IF FirstException(calls) # "None"
    THEN [exc |-> FirstException(calls), aggregated |-> None]
    ELSE [exc |-> "None",
          aggregated |-> Some(AggregatedReport(
              calls[1].series, calls[2].series, calls[3].series, calls[4].series,
              calls[5].series, calls[6].series))]

Aggregations(cs, prs, iss, rvs, ptype, s, u) ==
    BuildAggregated(AggregateAll(cs, prs, iss, rvs, ptype, s, u))

(***************************************************************************)
(* HTMLReporter._analyze_trend.  data is a list of (period, count) pairs   *)
(* with int counts.  The returned dict is [trend, percent, peak]: percent  *)
(* is the number printed in the narrative of an increasing or decreasing   *)
(* trend, peak the period named by the notable-peak sentence, if present.  *)
(***************************************************************************)
RECURSIVE sum(_)
sum(list) == IF list = <<>> THEN 0 ELSE Head(list) + sum(Tail(list))

\* max(counts) and counts.index(max_count)
max(list) == CHOOSE m \in Range(list) : \A x \in Range(list) : x <= m
index(list, x) == CHOOSE i \in 1..Len(list) :
                      list[i] = x /\ \A j \in 1..(i - 1) : list[j] # x

\* sum(half) / len(half) if half else 0
Average(half) ==
    IF half = <<>> THEN FloatZero ELSE FloatDiv(float(sum(half)), float(Len(half)))

\* the literal 0.2: the float nearest to 2/10
trend_threshold == FloatDiv(float(2), float(10))

\* (second_half_avg - first_half_avg) / first_half_avg if first_half_avg > 0 else 0
PercentChange(first_half_avg, second_half_avg) ==
    IF FloatLess(FloatZero, first_half_avg)
    THEN FloatDiv(FloatSub(second_half_avg, first_half_avg), first_half_avg)
    ELSE FloatZero

\* lines 695-706
Classify(percent_change) ==
    IF FloatLess(FloatAbs(percent_change), trend_threshold) THEN "stable"
    ELSE IF FloatLess(FloatZero, percent_change) THEN "increasing"
    ELSE "decreasing"

\* the peak test with >= in place of >
HasPeak_OrEqual(max_count, second_half_avg) ==
    ~FloatLess(float(max_count), FloatTimes1_5(second_half_avg))

\* line 713: max_count > second_half_avg * 1.5
HasPeak(max_count, second_half_avg) ==
    FloatLess(FloatTimes1_5(second_half_avg), float(max_count))

\* the guard that lets a single point through
InsufficientData_OnlyEmpty(data) == data = <<>>

\* line 676: not data or len(data) < 2
InsufficientData(data) == data = <<>> \/ Len(data) < 2

_analyze_trend(data) ==
    IF InsufficientData(data)
    THEN [trend |-> "insufficient_data", percent |-> None, peak |-> None]
    ELSE LET counts == [i \in 1..Len(data) |-> data[i][2]]
             first_half == SubSeq(counts, 1, Len(counts) \div 2)
             second_half == SubSeq(counts, Len(counts) \div 2 + 1, Len(counts))
             first_half_avg == Average(first_half)
             second_half_avg == Average(second_half)
             percent_change == PercentChange(first_half_avg, second_half_avg)
             trend == Classify(percent_change)
             max_count == max(counts)
             max_index == index(counts, max_count)
             max_period == data[max_index][1]
         IN [trend |-> trend,
             percent |-> IF trend = "stable" THEN None
                         ELSE Some(int(FloatTimes100(FloatAbs(percent_change)))),
             peak |-> IF HasPeak(max_count, second_half_avg)
                      THEN Some(max_period) ELSE None]

(***************************************************************************)
(* HTMLReporter._convert_week_to_jp_format.  The argument is               *)
(* [kind |-> "str", text |-> code points] or a value that is not a string. *)
(* The call gives [exc, value]: the exception that left it, if any, and    *)
(* the value returned.                                                     *)
(***************************************************************************)
Str(text) == [kind |-> "str", text |-> text]

\* str.split(sep): the parts between the occurrences of the character sep
RECURSIVE split(_, _)
split(text, sep) ==
    IF \A i \in 1..Len(text) : text[i] # sep THEN <<text>>
    ELSE LET i == CHOOSE j \in 1..Len(text) :
                      text[j] = sep /\ \A h \in 1..(j - 1) : text[h] # sep
         IN <<SubSeq(text, 1, i - 1)>> \o split(SubSeq(text, i + 1, Len(text)), sep)

\* the code points of the digit zero of every script: int() reads the ten
\* characters from each of them as the decimal digits 0..9
DecimalZeros ==
    {48, 1632, 1776, 1984, 2406, 2534, 2662, 2790, 2918, 3046, 3174, 3302,
     3430, 3558, 3664, 3792, 3872, 4160, 4240, 6112, 6160, 6470, 6608,
     6784, 6800, 6992, 7088, 7232, 7248, 42528, 43216, 43264, 43472, 43504,
     43600, 44016, 65296, 66720, 68912, 69734, 69872, 69942, 70096, 70384,
     70736, 70864, 71248, 71360, 71472, 71904, 72016, 72784, 73040, 73120,
     92768, 92864, 93008, 120782, 120792, 120802, 120812, 120822, 123200,
     123632, 125264, 130032}
IsDigit(c) == \E zero \in DecimalZeros : c \in zero..(zero + 9)
ToDecimal(c) == c - (CHOOSE zero \in DecimalZeros : c \in zero..(zero + 9))

\* the blanks int() skips around the number: those of C's isspace and the
\* blanks outside ASCII; the separators 28..31 are not among them
IsSpace(c) ==
    c \in (9..13) \cup {32, 133, 160, 5760} \cup (8192..8202)
         \cup {8232, 8233, 8239, 8287, 12288}

\* the text without the blanks at its two ends
strip(text) ==
    LET inked == {i \in 1..Len(text) : ~IsSpace(text[i])} IN
    IF inked = {} THEN <<>>
    ELSE SubSeq(text, CHOOSE i \in inked : \A j \in inked : i <= j,
                      CHOOSE i \in inked : \A j \in inked : j <= i)

\* the digits of a well-formed run of digits and underscores, as numbers,
\* without the underscores and the leading zeros
Significant(digits) ==
    LET kept == SelectSeq(digits, LAMBDA c : c # 95)
        values == [i \in 1..Len(kept) |-> ToDecimal(kept[i])]
        nonzero == {i \in 1..Len(values) : values[i] # 0}
    IN IF nonzero = {} THEN <<>>
       ELSE SubSeq(values, CHOOSE i \in nonzero : \A j \in nonzero : i <= j,
                   Len(values))

\* the value of at most nine digits
RECURSIVE ValueOf(_)
ValueOf(values) ==
    IF values = <<>> THEN 0
    ELSE ValueOf(SubSeq(values, 1, Len(values) - 1)) * 10 + values[Len(values)]

\* the value of a run of digits and underscores already found well formed;
\* a value of IntCap or more is given as IntCap
DecimalValue(digits) ==
    LET values == Significant(digits) IN
    IF Len(values) > 9 THEN IntCap
    ELSE IF ValueOf(values) >= IntCap THEN IntCap
    ELSE ValueOf(values)

\* sys.int_info.default_max_str_digits: int() refuses a longer run of digits
MaxStrDigits == 4300

\* int(text): None for ValueError.  Blanks around, an optional sign, then
\* digits, which single underscores may separate, at most MaxStrDigits of
\* them, leading zeros counted
int_of_str(text) ==
    LET t == strip(text)
        signed == t # <<>> /\ Head(t) \in {43, 45}
        digits == IF signed THEN Tail(t) ELSE t
        well_formed ==
            /\ digits # <<>>
            /\ IsDigit(Head(digits)) /\ IsDigit(digits[Len(digits)])
            /\ \A i \in 1..Len(digits) : IsDigit(digits[i]) \/ digits[i] = 95
            /\ \A i \in 1..(Len(digits) - 1) : ~(digits[i] = 95 /\ digits[i + 1] = 95)
        count == Cardinality({i \in 1..Len(digits) : digits[i] # 95})
    IN IF ~well_formed \/ count > MaxStrDigits THEN None
       ELSE IF signed /\ Head(t) = 45 THEN Some(0 - DecimalValue(digits))
       ELSE Some(DecimalValue(digits))

\* the year of datetime(year, 1, 1) is converted to a C int first: int(text) is
\* above 2^31 - 1 or below -2^31
BeyondCInt(text) ==
    LET t == strip(text)
        negative == Head(t) = 45
        number == Significant(IF Head(t) \in {43, 45} THEN Tail(t) ELSE t)
        limit == <<2, 1, 4, 7, 4, 8, 3, 6, 4, IF negative THEN 8 ELSE 7>>
    IN \/ Len(number) > Len(limit)
       \/ Len(number) = Len(limit) /\ StrLess(limit, number)

\* strftime('%Y-%m-%d') of the day with ordinal n; %Y is not padded
FormatDate(n) ==
    Decimal(YearOf(n)) \o <<Dash>> \o TwoDigits(MonthOf(n)) \o <<Dash>>
    \o TwoDigits(DayOf(n))

\* lines 582-583: days_to_first_monday + (week_num - 1) * 7
DaysToAdd(first_day, week_num) ==
    ((7 - weekday(first_day)) % 7) + (week_num - 1) * 7

_convert_week_to_jp_format(week_str) ==
    IF week_str.kind # "str" THEN [exc |-> "AttributeError", value |-> None]
    ELSE
    LET unchanged == [exc |-> "None", value |-> Some(week_str)]
        parts == split(week_str.text, Dash)
    IN IF Len(parts) # 2 THEN unchanged
       ELSE
       LET year == int_of_str(parts[1])
           week_num == IF parts[2] = <<>> THEN None ELSE int_of_str(Tail(parts[2]))
       IN IF year = None \/ week_num = None THEN unchanged
          ELSE IF BeyondCInt(parts[1]) THEN [exc |-> "OverflowError", value |-> None]
          ELSE IF year[1] < MINYEAR \/ year[1] > MAXYEAR THEN unchanged
          ELSE
          LET first_day == _ymd2ord(year[1], 1, 1)
              week_start == first_day + DaysToAdd(first_day, week_num[1])
          IN IF week_start < 1 \/ week_start > _MAXORDINAL
             THEN [exc |-> "OverflowError", value |-> None]
             ELSE [exc |-> "None", value |-> Some(Str(FormatDate(week_start)))]

(***************************************************************************)
(* The summary command, lines 258-270 of cli.py: with --jp-week-format and *)
(* week aggregation, the period of every entry of every aggregated series  *)
(* is replaced by its conversion.  The call gives [exc, aggregated].       *)
(***************************************************************************)
\* "-W" in period
HasWeekMark(period) ==
    \E i \in 1..(Len(period) - 1) : period[i] = Dash /\ period[i + 1] = UpperW

\* lines 266-269, for one series: [exc, series].  The list is changed in
\* place entry by entry, so the entries before the one whose conversion
\* raised (entry stop) stay converted
ConvertSeries(series) ==
    CHOOSE converted \in UNION {
        { [exc |-> IF stop > Len(series) THEN "None" ELSE calls[stop].exc,
           series |-> [i \in 1..Len(series) |->
                          IF i < stop THEN <<calls[i].value[1].text, series[i][2]>>
                          ELSE series[i]]] :
          stop \in { IF \A i \in 1..Len(series) : calls[i].exc = "None"
                     THEN Len(series) + 1
                     ELSE CHOOSE i \in 1..Len(series) :
                              /\ calls[i].exc # "None"
                              /\ \A j \in 1..(i - 1) : calls[j].exc = "None" } } :
        calls \in { [i \in 1..Len(series) |->
                        IF HasWeekMark(series[i][1])
                        THEN _convert_week_to_jp_format(Str(series[i][1]))
                        ELSE [exc |-> "None", value |-> Some(Str(series[i][1]))]] } } :
        TRUE

\* the keys of result["aggregated"] in the order of their insertion
\* (github_client.py lines 500-506 and 533), which is the order of line 261
AggregatedOrder ==
    <<"total_contributions", "commits", "pull_requests", "issues", "reviews",
      "code_changes">>

\* lines 258-270: [exc, aggregated].  The series before the one whose
\* conversion raised (the one at place stop) stay converted, those after it
\* are not reached
ConvertAggregated(aggregated_data, flag, aggregation_type) ==
    IF flag /\ aggregation_type = "week"
    THEN CHOOSE call \in UNION {
            { [exc |-> IF stop > Len(AggregatedOrder) THEN "None"
                       ELSE converted[AggregatedOrder[stop]].exc,
               aggregated |->
                  [activity_type \in DOMAIN aggregated_data |->
                      IF \E i \in 1..Len(AggregatedOrder) :
                            i <= stop /\ AggregatedOrder[i] = activity_type
                      THEN converted[activity_type].series
                      ELSE aggregated_data[activity_type]]] :
              stop \in { IF \A t \in DOMAIN converted : converted[t].exc = "None"
                         THEN Len(AggregatedOrder) + 1
                         ELSE CHOOSE i \in 1..Len(AggregatedOrder) :
                                 /\ AggregatedOrder[i] \in DOMAIN converted
                                 /\ converted[AggregatedOrder[i]].exc # "None"
                                 /\ \A j \in 1..(i - 1) :
                                       AggregatedOrder[j] \in DOMAIN converted
                                       => converted[AggregatedOrder[j]].exc = "None" } } :
            converted \in { [activity_type \in DOMAIN aggregated_data |->
                                ConvertSeries(aggregated_data[activity_type])] } } :
            TRUE
    ELSE [exc |-> "None", aggregated |-> aggregated_data]

(***************************************************************************)
(* MultiUserReporter.generate_html_report.  users_data is a list of        *)
(* references to dicts and a user's dict refers to its 'aggregated' dict.  *)
(* The call writes into the dicts it is given (lines 616 and 638-656), so  *)
(* the dicts are the objects of a heap, a sequence indexed by reference:   *)
(* one dict may be listed twice, may be the 'aggregated' of two users, and *)
(* may come with fields of an earlier call.  What is under 'user',         *)
(* 'activity_period' and 'summary' is only read and is kept as a value.    *)
(* A number is a float, the int n being float(n).  The call gives          *)
(* [exc, heap, context]; the ranking lists of the context hold references. *)
(***************************************************************************)
\* len(colors), line 614
NumColors == 8

\* a / b of two ints
TrueDiv(a, b) == FloatDiv(float(a), float(b))

\* the daily average taken over the days plus one
DailyAverage_Inclusive(count, days_in_period) ==
    IF days_in_period # 0 THEN TrueDiv(count, days_in_period + 1) ELSE FloatZero

\* lines 638-640: count / days_in_period if days_in_period else 0
DailyAverage(count, days_in_period) ==
    IF days_in_period # 0 THEN TrueDiv(count, days_in_period) ELSE FloatZero

\* line 643: (total / total_activity * 100) if total_activity else 0
ActivityPercentage(total, total_activity) ==
    IF total_activity # 0 THEN FloatTimes100(TrueDiv(total, total_activity))
    ELSE FloatZero

\* the label given to every user with a contribution
PerformanceLabel_AnyContribution(total, average_activity) ==
    IF total > 0 THEN "High Performer" ELSE "Average"

\* the label given from the average on
PerformanceLabel_FromAverage(total, average_activity) ==
    IF ~FloatLess(float(total), average_activity) THEN "High Performer" ELSE "Average"

\* line 646
PerformanceLabel(total, average_activity) ==
    IF FloatLess(average_activity, float(total)) THEN "High Performer" ELSE "Average"

\* d[key] = value on the dict at ref: the dict is changed in place, whoever
\* refers to it
SetItem(h, ref, key, value) == [h EXCEPT ![ref] = (key :> value) @@ @]

\* lines 621 and 649
HasSeries(h, user_data) ==
    "aggregated" \in DOMAIN user_data
    /\ "total_contributions" \in DOMAIN h[user_data.aggregated]

\* line 678
HasValues(h, user_data) ==
    "aggregated" \in DOMAIN user_data
    /\ "total_contributions_values" \in DOMAIN h[user_data.aggregated]

\* lines 615-616, from the i-th entry of the list on: a dict listed twice
\* ends with the colour of its last place
RECURSIVE AssignColors(_, _, _)
AssignColors(h, users, i) ==
    IF i > Len(users) THEN h
    ELSE AssignColors(SetItem(h, users[i], "color", ((i - 1) % NumColors) + 1),
                      users, i + 1)

\* lines 619-626: the sorted union of the periods of the users' series
Periods(h, users) ==
    SortStrings(SetToSeq(UNION {Keys(h[h[users[i]].aggregated].total_contributions) :
                                   i \in {j \in 1..Len(users) : HasSeries(h, h[users[j]])}}))

\* lines 651-656: contributions_dict.get(period, 0) for every period, where
\* the dict of line 651 keeps the last count of a period given twice
ContributionValues(series, periods) ==
    [i \in 1..Len(periods) |->
        LET at == {k \in 1..Len(series) : series[k][1] = periods[i]}
        IN IF at = {} THEN 0
           ELSE series[CHOOSE k \in at : \A other \in at : other <= k][2].n]

\* lines 629 and 631: the sum over the entries of the list
RECURSIVE SumOver(_, _, _)
SumOver(h, users, field) ==
    IF users = <<>> THEN 0
    ELSE h[Head(users)].summary[field] + SumOver(h, Tail(users), field)

\* the pass of the loop, with the user's name replaced by the label of line 659
Enriched_NameFilled(h, ref, days_in_period, total_activity, average_activity, periods) ==
    LET summary == h[ref].summary
        written ==
          [daily_avg_activity |-> DailyAverage(summary.total_contributions, days_in_period),
           daily_avg_pr |-> DailyAverage(summary.pull_requests_count, days_in_period),
           daily_avg_commits |-> DailyAverage(summary.commits_count, days_in_period),
           activity_percentage |->
               ActivityPercentage(summary.total_contributions, total_activity),
           performance_label |->
               PerformanceLabel(summary.total_contributions, average_activity),
           user |-> [login |-> h[ref].user.login,
                     name |-> IF h[ref].user.name \in {None, Some("")}
                              THEN Some(h[ref].user.login)
                              ELSE h[ref].user.name]]
        with_metrics == [h EXCEPT ![ref] = written @@ @]
    IN IF HasSeries(h, h[ref])
       THEN SetItem(with_metrics, h[ref].aggregated, "total_contributions_values",
                    ContributionValues(h[h[ref].aggregated].total_contributions, periods))
       ELSE with_metrics

\* lines 636-656, one pass of the loop: the five fields written to the dict
\* at ref, and total_contributions_values written to its 'aggregated' dict
\* when that has a series
Enriched(h, ref, days_in_period, total_activity, average_activity, periods) ==
    LET summary == h[ref].summary
        written ==
          [daily_avg_activity |-> DailyAverage(summary.total_contributions, days_in_period),
           daily_avg_pr |-> DailyAverage(summary.pull_requests_count, days_in_period),
           daily_avg_commits |-> DailyAverage(summary.commits_count, days_in_period),
           activity_percentage |->
               ActivityPercentage(summary.total_contributions, total_activity),
           performance_label |->
               PerformanceLabel(summary.total_contributions, average_activity)]
        with_metrics == [h EXCEPT ![ref] = written @@ @]
    IN IF HasSeries(h, h[ref])
       THEN SetItem(with_metrics, h[ref].aggregated, "total_contributions_values",
                    ContributionValues(h[h[ref].aggregated].total_contributions, periods))
       ELSE with_metrics

\* lines 636-656, from the i-th entry of the list on
RECURSIVE EnrichFrom(_, _, _, _, _, _, _)
EnrichFrom(h, users, i, days_in_period, total_activity, average_activity, periods) ==
    IF i > Len(users) THEN h
    ELSE \* the heap after this pass is one value, bound once
         CHOOSE after \in
            { EnrichFrom(next, users, i + 1, days_in_period, total_activity,
                         average_activity, periods) :
                next \in {Enriched(h, users[i], days_in_period, total_activity,
                                   average_activity, periods)} } : TRUE

\* the sort key of lines 669-672: a summary count or a derived average
RankingKey(user_data, metric) ==
    IF metric \in DOMAIN user_data.summary THEN float(user_data.summary[metric])
    ELSE user_data[metric]

\* a descending sort that puts the later of two users with equal keys first
Ranked_TiesReversed(h, users, metric) ==
    LET Before(j, i) ==
          \/ FloatLess(RankingKey(h[users[i]], metric), RankingKey(h[users[j]], metric))
          \/ /\ ~FloatLess(RankingKey(h[users[j]], metric), RankingKey(h[users[i]], metric))
             /\ j > i
        Position(i) == 1 + Cardinality({j \in 1..Len(users) : Before(j, i)})
    IN [p \in 1..Len(users) |->
           users[CHOOSE i \in 1..Len(users) : Position(i) = p]]

\* sorted(users, key, reverse=True): descending, equal keys in input order.
\* The entry at j comes before the entry at i when its key is greater, or is
\* not less and j is the earlier index.  The sorted list holds references.
Ranked(h, users, metric) ==
    LET Before(j, i) ==
          \/ FloatLess(RankingKey(h[users[i]], metric), RankingKey(h[users[j]], metric))
          \/ /\ ~FloatLess(RankingKey(h[users[j]], metric), RankingKey(h[users[i]], metric))
             /\ j < i
        Position(i) == 1 + Cardinality({j \in 1..Len(users) : Before(j, i)})
    IN [p \in 1..Len(users) |->
           users[CHOOSE i \in 1..Len(users) : Position(i) = p]]

\* lines 669-672: sorted(...)[:2]
TopTwo(h, users, metric) ==
    LET ranked == Ranked(h, users, metric)
    IN SubSeq(ranked, 1, IF Len(ranked) < 2 THEN Len(ranked) ELSE 2)

\* line 659: the name, or the login when the name is None or empty
LabelOf(user_data) ==
    IF user_data.user.name # None /\ user_data.user.name # Some("")
    THEN user_data.user.name[1] ELSE user_data.user.login

\* lines 659-692: what the template gets, read from the dicts as lines
\* 615-656 left them.  A dataset is made for every entry whose 'aggregated'
\* dict has total_contributions_values, written by this call or not.
TemplateContext(h, users, activity_period, periods, total_activity, total_pr) ==
    LET Charted(ref) == HasValues(h, h[ref])
        with_values == SelectSeq(users, Charted)
    IN [activity_period |-> activity_period,
        periods |-> periods,
        total_activity |-> total_activity,
        average_activity |-> TrueDiv(total_activity, Len(users)),
        total_pr |-> total_pr,
        average_pr |-> TrueDiv(total_pr, Len(users)),
        user_labels |-> [i \in 1..Len(users) |-> LabelOf(h[users[i]])],
        contribution_values |->
            [i \in 1..Len(users) |-> h[users[i]].summary.total_contributions],
        user_colors |-> [i \in 1..Len(users) |-> h[users[i]].color],
        top_contributors |-> TopTwo(h, users, "total_contributions"),
        top_daily_avg_activity |-> TopTwo(h, users, "daily_avg_activity"),
        top_pr_contributors |-> TopTwo(h, users, "pull_requests_count"),
        top_daily_avg_pr |-> TopTwo(h, users, "daily_avg_pr"),
        datasets |->
            [i \in 1..Len(with_values) |->
                [label |-> LabelOf(h[with_values[i]]),
                 data |-> h[h[with_values[i]].aggregated].total_contributions_values,
                 borderColor |-> h[with_values[i]].color]]]

\* lines 607-692 on the list users of references into the heap h
generate_html_report(users, h) ==
    IF users = <<>>
    THEN [exc |-> "IndexError", heap |-> h, context |-> None]
    ELSE
    LET activity_period == h[users[1]].activity_period
        coloured == AssignColors(h, users, 1)
        periods == Periods(coloured, users)
        total_activity == SumOver(coloured, users, "total_contributions")
        average_activity == TrueDiv(total_activity, Len(users))
        total_pr == SumOver(coloured, users, "pull_requests_count")
        changed == EnrichFrom(coloured, users, 1, activity_period.days, total_activity,
                              average_activity, periods)
    IN CHOOSE call \in
          { [exc |-> "None",
             heap |-> after,
             context |-> Some(TemplateContext(after, users, activity_period, periods,
                                              total_activity, total_pr))] :
              after \in {changed} } : TRUE

(***************************************************************************)
(* Inputs of the aggregation.                                              *)
(***************************************************************************)
Iso(t) == [kind |-> "iso", at |-> t]
BadText == [kind |-> "text", at |-> 0]
NoneValue == [kind |-> "none", at |-> 0]
IntField == [kind |-> "int", at |-> 0]

Noon == TicksPerDay \div 2
T0 == datetime(2024, 11, 15)
T1 == datetime(2024, 12, 30) + Noon
T2 == datetime(2025, 1, 1)
T3 == datetime(2025, 1, 6) + Noon

Commit(t, a, d) == [date |-> Iso(t), additions |-> a, deletions |-> d]
PullRequest(t) == [created_at |-> Iso(t)]
Review(t) == [reviewed_at |-> Iso(t)]

WellFormed ==
    { Commit(T1, 1, 2), Commit(T2, 2, 0), Commit(T3, 3, 1),
      [date |-> Iso(T1)], PullRequest(T2), Review(T0) }
Malformed ==
    { [sha |-> "abc123"], [date |-> BadText], [date |-> NoneValue],
      [created_at |-> IntField], [date |-> BadText, created_at |-> Iso(T3)] }
Records == WellFormed \cup Malformed

RECURSIVE SeqsUpTo(_, _)
SeqsUpTo(S, n) ==
    IF n = 0 THEN {<<>>}
    ELSE LET shorter == SeqsUpTo(S, n - 1) IN
         shorter \cup {Append(q, x) : q \in {r \in shorter : Len(r) = n - 1}, x \in S}

WindowStart == datetime(2024, 12, 2)
SinceSet == {WindowStart + k : k \in 0..(timedelta(SinceDays) - 1)}
UntilSet(s) == s..(s + timedelta(MaxSpanDays))
MetricTypes == {None, Some("additions"), Some("deletions")}
PeriodTypes == {"week", "month"}

\* the windows given together with a record list
SomeWindows ==
    { <<None, None>>, <<Some(datetime(2024, 12, 25)), None>>,
      <<Some(datetime(2024, 12, 25)), Some(datetime(2025, 1, 6))>>,
      <<Some(datetime(2024, 12, 30) + Noon), Some(datetime(2025, 2, 1))>> }

VARIABLES
    data, period_type, since, until, metric_type,   \* arguments of the call
    aggregated, current,                            \* locals of the call
    pc,                                             \* position in the call
    result, exc,                                    \* value returned, exception raised
    aggregation,                                    \* argument of get_user_activity_summary
    search_result,                                  \* what search_commits answered
    commits, commit_totals,                         \* the CommitList and its attributes
    pull_requests, issues, reviews,                 \* the other fetched lists
    report,                                         \* result of get_user_activity_summary
    week_str,                                       \* argument of _convert_week_to_jp_format
    users_data,                                     \* argument of MultiUserReporter.generate_html_report
    heap,                                           \* the dicts that users_data refers to
    jp_week_format                                  \* flag of the summary command

vars == <<data, period_type, since, until, metric_type, aggregated, current,
          pc, result, exc, aggregation, search_result, commits, commit_totals,
          pull_requests, issues, reviews, report, week_str, users_data,
          heap, jp_week_format>>

aggregator_vars == <<data, period_type, metric_type, aggregated, current, result>>
summary_vars == <<aggregation, search_result, commits, commit_totals,
                  pull_requests, issues, reviews, report>>
reporter_vars == <<week_str, users_data, heap, jp_week_format>>

NoTotals == [total_additions |-> 0, total_deletions |-> 0]
NoReport == [summary |-> SummaryCounts(<<>>, <<>>, <<>>, <<>>, NoTotals)]

args == <<data, period_type, since, until, metric_type>>

\* every window, with no record or one record, in count mode
InitWindow ==
    \E s \in SinceSet : \E u \in UntilSet(s) :
        /\ data \in {<<>>, <<Commit(T2, 2, 0)>>}
        /\ period_type \in PeriodTypes
        /\ since = Some(s)
        /\ until = Some(u)
        /\ metric_type = None

\* a window that ends with the last day of the calendar
LastWindow == <<Some(datetime(MAXYEAR, 12, 20)), Some(datetime(MAXYEAR, 12, 31))>>

\* every short record list, with a few windows, in every mode
InitRecords ==
    \E w \in SomeWindows \cup {LastWindow} :
        /\ data \in SeqsUpTo(Records, MaxRecords)
        /\ period_type \in PeriodTypes
        /\ since = w[1]
        /\ until = w[2]
        /\ metric_type \in MetricTypes

Init ==
    /\ InitWindow \/ InitRecords
    /\ aggregated = <<>>
    /\ current = 0
    /\ pc = "call"
    /\ result = <<>>
    /\ exc = "None"
    /\ aggregation = None
    /\ search_result = SearchOf(<<>>) /\ commits = <<>> /\ commit_totals = NoTotals
    /\ pull_requests = <<>> /\ issues = <<>> /\ reviews = <<>>
    /\ report = NoReport
    /\ week_str = None /\ users_data = <<>> /\ heap = <<>> /\ jp_week_format = FALSE

\* lines 334-372: the loop over data
Bucket ==
    /\ pc = "call"
    /\ LET st == AggregateData([aggregated |-> <<>>, exc |-> "None"],
                               data, period_type, metric_type)
       IN /\ aggregated' = st.aggregated
          /\ exc' = st.exc
          /\ IF st.exc # "None"
             THEN pc' = "raised" /\ current' = current
             ELSE IF since # None /\ until # None
                  THEN pc' = "fill" /\ current' = since[1]
                  ELSE pc' = "sort" /\ current' = current
    /\ UNCHANGED <<args, result, summary_vars, reporter_vars>>

\* lines 378-390: one iteration of the gap-fill loop
Fill ==
    /\ pc = "fill"
    /\ current <= until[1]
    /\ aggregated' = FillPeriodKey(aggregated, current, period_type)
    /\ \E next \in {NextPeriod(current, period_type)} :
          IF next.exc # "None"
          THEN pc' = "raised" /\ exc' = next.exc /\ current' = current
          ELSE pc' = pc /\ exc' = exc /\ current' = next.at
    /\ UNCHANGED <<args, result, summary_vars, reporter_vars>>

\* lines 392-396: the loop has ended; sort and return
Return ==
    /\ \/ pc = "sort"
       \/ pc = "fill" /\ current > until[1]
    /\ result' = SortByKey(aggregated)
    /\ pc' = "done"
    /\ UNCHANGED <<args, aggregated, current, exc, summary_vars, reporter_vars>>

Next == Bucket \/ Fill \/ Return

Spec == Init /\ [][Next]_vars

(***************************************************************************)
(* get_user_activity_summary as a state machine: the four fetches in the   *)
(* order of lines 422-425, then the summary and the aggregation.           *)
(***************************************************************************)
Found(t, a, d) == [at |-> t, stats |-> Some([additions |-> a, deletions |-> d])]
FoundWithoutStats(t) == [at |-> t, stats |-> None]
FoundCommits == {Found(T1, 1, 2), Found(T2, 2, 0), FoundWithoutStats(T3)}
FoundPullRequests == {PullRequest(T2)}
FoundIssues == {[created_at |-> Iso(T1)]}
FoundReviews == {Review(T0), [reviewed_at |-> BadText]}

\* the user github.get_user answers with
Octocat ==
    [login |-> "octocat", name |-> Some("The Octocat"),
     avatar_url |-> "https://github.com/images/error/octocat_happy.gif",
     html_url |-> "https://github.com/octocat",
     public_repos |-> 2, followers |-> 20, following |-> 0,
     created_at |-> T0]
\* GitHubClient.get_user: the user, or the GithubException it raises again
GetUserAnswers ==
    {[raised |-> TRUE, user |-> None], [raised |-> FALSE, user |-> Some(Octocat)]}
\* lines 435-444: result["user"]
UserFields(user) == [user EXCEPT !.created_at = Iso(user.created_at)]

\* the answers of a search: every short list, and one longer than the preview
Answers(S, longest) ==
    SeqsUpTo(S, longest) \cup {[i \in 1..(PreviewSize + 1) |-> x] : x \in S}

\* the commit searches: those that give a list, and those whose iteration
\* raises at once or after one commit
CommitSearches ==
    {SearchOf(found) : found \in Answers(FoundCommits, MaxCommits)}
    \cup {[raised |-> TRUE, items |-> found] : found \in SeqsUpTo(FoundCommits, 1)}

SummaryWindows ==
    { <<datetime(2024, 12, 25), datetime(2025, 1, 6)>>,
      <<datetime(2024, 12, 30) + Noon, datetime(2025, 2, 1)>> }

InitSummary ==
    /\ \E w \in SummaryWindows : since = Some(w[1]) /\ until = Some(w[2])
    /\ aggregation \in {None, Some("week"), Some("month")}
    /\ pc = "start"
    /\ exc = "None"
    /\ search_result = SearchOf(<<>>) /\ commits = <<>> /\ commit_totals = NoTotals
    /\ pull_requests = <<>> /\ issues = <<>> /\ reviews = <<>>
    /\ report = NoReport
    /\ week_str = None /\ users_data = <<>> /\ heap = <<>> /\ jp_week_format = FALSE
    /\ data = <<>> /\ period_type = "week" /\ metric_type = None
    /\ aggregated = <<>> /\ current = 0 /\ result = <<>>

\* line 422
FetchCommits ==
    /\ pc = "start"
    /\ \E search \in CommitSearches : \E got \in {get_user_commits(search)} :
          /\ search_result' = search
          /\ commits' = got.commits
          /\ commit_totals' = [total_additions |-> got.total_additions,
                               total_deletions |-> got.total_deletions]
    /\ pc' = "commits"
    /\ UNCHANGED <<aggregator_vars, since, until, exc, aggregation, pull_requests,
                   issues, reviews, report, reporter_vars>>

\* line 423
FetchPullRequests ==
    /\ pc = "commits"
    /\ pull_requests' \in Answers(FoundPullRequests, MaxFetched)
    /\ pc' = "pull_requests"
    /\ UNCHANGED <<aggregator_vars, since, until, exc, aggregation, search_result,
                   commits,
                   commit_totals, issues, reviews, report, reporter_vars>>

\* line 424
FetchIssues ==
    /\ pc = "pull_requests"
    /\ issues' \in Answers(FoundIssues, MaxFetched)
    /\ pc' = "issues"
    /\ UNCHANGED <<aggregator_vars, since, until, exc, aggregation, search_result,
                   commits,
                   commit_totals, pull_requests, reviews, report, reporter_vars>>

\* line 425
FetchReviews ==
    /\ pc = "issues"
    /\ reviews' \in Answers(FoundReviews, MaxFetched)
    /\ pc' = "reviews"
    /\ UNCHANGED <<aggregator_vars, since, until, exc, aggregation, search_result,
                   commits,
                   commit_totals, pull_requests, issues, report, reporter_vars>>

\* the summary built as soon as the commits are there
Summarize_AfterCommits ==
    /\ pc = "commits"
    /\ \E answer \in GetUserAnswers :
          IF answer.raised
          THEN pc' = "raised" /\ exc' = "GithubException" /\ report' = report
          ELSE
          LET base == BaseReport(commits, pull_requests, issues, reviews,
                                 commit_totals, since[1], until[1],
                                 UserFields(answer.user[1]))
          IN IF aggregation \in {Some("week"), Some("month")}
             THEN LET agg == Aggregations(commits, pull_requests, issues, reviews,
                                          aggregation[1], since[1], until[1])
                  IN IF agg.exc # "None"
                     THEN pc' = "raised" /\ exc' = agg.exc /\ report' = report
                     ELSE /\ pc' = "returned" /\ exc' = exc
                          /\ report' = [aggregated |-> agg.aggregated[1]] @@ base
             ELSE pc' = "returned" /\ exc' = exc /\ report' = base
    /\ UNCHANGED <<aggregator_vars, since, until, aggregation, search_result, commits,
                   commit_totals, pull_requests, issues, reviews, reporter_vars>>

\* lines 427-535: the profile of the user is asked for first (line 428), and
\* the exception of GitHubClient.get_user (lines 75-79) ends the call
Summarize ==
    /\ pc = "reviews"
    /\ \E answer \in GetUserAnswers :
          IF answer.raised
          THEN pc' = "raised" /\ exc' = "GithubException" /\ report' = report
          ELSE
          LET base == BaseReport(commits, pull_requests, issues, reviews,
                                 commit_totals, since[1], until[1],
                                 UserFields(answer.user[1]))
          IN IF aggregation \in {Some("week"), Some("month")}
             THEN LET agg == Aggregations(commits, pull_requests, issues, reviews,
                                          aggregation[1], since[1], until[1])
                  IN IF agg.exc # "None"
                     THEN pc' = "raised" /\ exc' = agg.exc /\ report' = report
                     ELSE /\ pc' = "returned" /\ exc' = exc
                          /\ report' = [aggregated |-> agg.aggregated[1]] @@ base
             ELSE pc' = "returned" /\ exc' = exc /\ report' = base
    /\ UNCHANGED <<aggregator_vars, since, until, aggregation, search_result, commits,
                   commit_totals, pull_requests, issues, reviews, reporter_vars>>

NextSummary == FetchCommits \/ FetchPullRequests \/ FetchIssues \/ FetchReviews
               \/ Summarize

SpecSummary == InitSummary /\ [][NextSummary]_vars

(***************************************************************************)
(* HTMLReporter._analyze_trend as a state machine: one call on one series. *)
(***************************************************************************)
\* the other functions are not running
AggregatorIdle ==
    /\ period_type = "week" /\ metric_type = None
    /\ since = None /\ until = None
    /\ aggregated = <<>> /\ current = 0
SummaryIdle ==
    /\ aggregation = None
    /\ search_result = SearchOf(<<>>) /\ commits = <<>> /\ commit_totals = NoTotals
    /\ pull_requests = <<>> /\ issues = <<>> /\ reviews = <<>>
    /\ report = NoReport

\* the i-th week key of a series: the weeks of 2025 from its first Monday
PeriodOf(i) == strftime(datetime(2025, 1, 6) + timedelta(7 * (i - 1)), "%Y-W%W")
TrendData(counts) == [i \in 1..Len(counts) |-> <<PeriodOf(i), counts[i]>>]

CountValues == {0, 1, 2}
TrendExamples ==
    { <<10, 10, 10, 10>>, <<10, 10, 20, 20>>, <<20, 20, 10, 10>>,
      <<10, 12>>, <<10, 8>>, <<20>> }
TrendSeries ==
    {TrendData(counts) : counts \in SeqsUpTo(CountValues, MaxPoints) \cup TrendExamples}

InitTrend ==
    /\ data \in TrendSeries
    /\ pc = "analyze"
    /\ result = <<>>
    /\ exc = "None"
    /\ AggregatorIdle /\ SummaryIdle
    /\ week_str = None /\ users_data = <<>> /\ heap = <<>> /\ jp_week_format = FALSE

\* lines 665-721
AnalyzeTrend ==
    /\ pc = "analyze"
    /\ result' = _analyze_trend(data)
    /\ pc' = "analyzed"
    /\ UNCHANGED <<args, aggregated, current, exc, summary_vars, reporter_vars>>

NextTrend == AnalyzeTrend

SpecTrend == InitTrend /\ [][NextTrend]_vars

(***************************************************************************)
(* HTMLReporter._convert_week_to_jp_format as a state machine: one call,   *)
(* on a key that _aggregate_by_period produced or on another value.        *)
(***************************************************************************)
\* Monday 2023-12-25: the keys of the days from there on are converted
FirstKeyDay == _ymd2ord(2023, 12, 25)
WeekKeyOfDay(n) == strftime(datetime(1, 1, 1) + timedelta(n - 1), "%Y-W%W")
EncodedKeys == {Str(WeekKeyOfDay(n)) : n \in FirstKeyDay..(FirstKeyDay + KeyDays)}

OtherWeekInputs ==
    { Str(<<110, 111, 116, 45, 97, 45, 119, 101, 101, 107>>),   \* "not-a-week"
      Str(<<50, 48, 50, 52, 45, 87, 57, 57>>),   \* "2024-W99"
      Str(<<48, 48, 48, 48, 45, 87, 48, 49>>),   \* "0000-W01"
      Str(<<49, 48, 48, 48, 48, 45, 87, 48, 49>>),   \* "10000-W01"
      Str(<<57, 57, 57, 57, 45, 87, 53, 51>>),   \* "9999-W53"
      Str(<<50, 48, 50, 52, 45, 87, 120, 120>>),   \* "2024-Wxx"
      Str(<<50, 48, 50, 52, 45, 48, 49>>),   \* "2024-01"
      Str(<<50, 48, 50, 52, 45, 87, 53, 52>>),   \* "2024-W54"
      Str(<<50, 48, 50, 52, 45, 87, 48, 49, 45, 50>>),   \* "2024-W01-2"
      NoneValue, IntField }

InitWeek ==
    /\ week_str \in EncodedKeys \cup OtherWeekInputs
    /\ pc = "convert"
    /\ result = <<>>
    /\ exc = "None"
    /\ data = <<>>
    /\ AggregatorIdle /\ SummaryIdle
    /\ users_data = <<>> /\ heap = <<>> /\ jp_week_format = FALSE

\* lines 560-590
ConvertWeek ==
    /\ pc = "convert"
    /\ LET call == _convert_week_to_jp_format(week_str)
       IN IF call.exc # "None"
          THEN pc' = "raised" /\ exc' = call.exc /\ result' = result
          ELSE pc' = "converted" /\ exc' = exc /\ result' = call.value[1]
    /\ UNCHANGED <<args, aggregated, current, summary_vars, reporter_vars>>

NextWeek == ConvertWeek

SpecWeek == InitWeek /\ [][NextWeek]_vars

(***************************************************************************)
(* MultiUserReporter.generate_html_report as a state machine: one call on  *)
(* a list of references to the reports of some users.                      *)
(***************************************************************************)
\* a user's report: commits, pull requests, issues and reviews counted over
\* a period of (until - since).days days, possibly 0
UserReport(login, name, c, p, i, r, days) ==
    [user |-> [login |-> login, name |-> name],
     activity_period |-> [days |-> days],
     summary |-> [commits_count |-> c, pull_requests_count |-> p,
                  issues_count |-> i, reviews_count |-> r,
                  total_contributions |-> c + p + i + r]]
\* the report with a reference to its 'aggregated' dict
WithAggregated(report_, ref) == [aggregated |-> ref] @@ report_
\* the report as an earlier call on it, at the place given, left it
AfterEarlierCall(report_, place) ==
    [color |-> place,
     daily_avg_activity |-> float(place), daily_avg_pr |-> float(place),
     daily_avg_commits |-> float(place), activity_percentage |-> float(place),
     performance_label |-> "High Performer"] @@ report_

\* the dicts of the callers: five users' reports and, after them, three
\* 'aggregated' dicts.  The first report is over a period of no days and has
\* no 'aggregated'; the second and the fifth share one, whose series gives
\* its first period twice; the third has the fields of an earlier call and
\* values but no series; the fourth has a series and values of an earlier
\* call.
UsersHeap ==
    << UserReport("u0", None, 0, 0, 0, 0, 0),
       WithAggregated(UserReport("u1", Some("One"), 1, 0, 0, 0, 7), 6),
       AfterEarlierCall(WithAggregated(UserReport("u2", Some(""), 1, 1, 0, 0, 7), 7), 5),
       WithAggregated(UserReport("u3", None, 0, 2, 1, 0, 7), 8),
       WithAggregated(UserReport("u4", Some("Four"), 0, 1, 0, 0, 7), 6),
       [total_contributions |->
            <<<<PeriodOf(1), IntValue(1)>>, <<PeriodOf(2), IntValue(0)>>,
              <<PeriodOf(1), IntValue(3)>>>>],
       [total_contributions_values |-> <<9>>],
       [total_contributions |->
            <<<<PeriodOf(2), IntValue(2)>>, <<PeriodOf(3), IntValue(1)>>>>,
        commits |-> <<<<PeriodOf(2), IntValue(0)>>>>,
        total_contributions_values |-> <<9, 9>>] >>

\* the references to the users' reports
UserRefs == {ref \in 1..Len(UsersHeap) : "user" \in DOMAIN UsersHeap[ref]}

InitUsers ==
    /\ users_data \in SeqsUpTo(UserRefs, MaxUsers)
    /\ heap = UsersHeap
    /\ pc = "report"
    /\ result = <<>>
    /\ exc = "None"
    /\ data = <<>>
    /\ AggregatorIdle /\ SummaryIdle
    /\ week_str = None /\ jp_week_format = FALSE

\* lines 595-692: the dicts are changed in place, the list is not; result is
\* what the template gets
CompareUsers ==
    /\ pc = "report"
    /\ \E call \in {generate_html_report(users_data, heap)} :
          IF call.exc # "None"
          THEN /\ pc' = "raised" /\ exc' = call.exc
               /\ result' = result /\ heap' = heap
          ELSE /\ pc' = "reported" /\ exc' = exc
               /\ result' = call.context[1] /\ heap' = call.heap
    /\ UNCHANGED <<args, aggregated, current, summary_vars, week_str, users_data,
                   jp_week_format>>

NextUsers == CompareUsers

SpecUsers == InitUsers /\ [][NextUsers]_vars

(***************************************************************************)
(* get_user_pull_requests and get_user_issues as a state machine: the two  *)
(* functions applied to one issue search.                                  *)
(***************************************************************************)
Markers == {"absent", "none", "empty", "set"}
\* the searches of up to MaxItems items, numbered in their order
IssueSearches ==
    { SearchOf([i \in 1..Len(q) |-> [number |-> i, marker |-> q[i]]]) :
         q \in SeqsUpTo(Markers, MaxItems) }
    \cup {SearchRaised}

InitSearch ==
    /\ search_result \in IssueSearches
    /\ pc = "search"
    /\ pull_requests = <<>> /\ issues = <<>>
    /\ aggregation = None /\ commits = <<>> /\ commit_totals = NoTotals
    /\ reviews = <<>> /\ report = NoReport
    /\ exc = "None" /\ result = <<>> /\ data = <<>>
    /\ AggregatorIdle
    /\ week_str = None /\ users_data = <<>> /\ heap = <<>> /\ jp_week_format = FALSE

PullRequestsOfSearch ==
    /\ pc = "search"
    /\ pull_requests' = get_user_pull_requests(search_result)
    /\ pc' = "pull_requests_of_search"
    /\ UNCHANGED <<args, aggregated, current, result, exc, aggregation, search_result,
                   commits, commit_totals, issues, reviews, report, reporter_vars>>

IssuesOfSearch ==
    /\ pc = "pull_requests_of_search"
    /\ issues' = get_user_issues(search_result)
    /\ pc' = "issues_of_search"
    /\ UNCHANGED <<args, aggregated, current, result, exc, aggregation, search_result,
                   commits, commit_totals, pull_requests, reviews, report,
                   reporter_vars>>

NextSearch == PullRequestsOfSearch \/ IssuesOfSearch

SpecSearch == InitSearch /\ [][NextSearch]_vars

(***************************************************************************)
(* The display of the aggregated series by the summary command, as a state *)
(* machine: the commits of a user aggregated over a window, then the       *)
(* conversion of lines 258-270 of cli.py.                                  *)
(***************************************************************************)
InitDisplay ==
    /\ \E w \in {v \in SomeWindows : v[1] # None /\ v[2] # None} :
          since = w[1] /\ until = w[2]
    /\ data \in SeqsUpTo({r \in WellFormed : "date" \in DOMAIN r}, MaxRecords)
    /\ aggregation \in {Some("week"), Some("month")}
    /\ jp_week_format \in BOOLEAN
    /\ period_type = aggregation[1] /\ metric_type = None
    /\ report = [aggregated |->
                    [commits |-> _aggregate_by_period(data, aggregation[1], since,
                                                      until, None).series]]
    /\ pc = "display"
    /\ aggregated = <<>> /\ current = 0 /\ result = <<>> /\ exc = "None"
    /\ search_result = SearchOf(<<>>) /\ commits = data /\ commit_totals = NoTotals
    /\ pull_requests = <<>> /\ issues = <<>> /\ reviews = <<>>
    /\ week_str = None /\ users_data = <<>> /\ heap = <<>>

\* cli.py lines 258-270
DisplayAggregated ==
    /\ pc = "display"
    /\ \E call \in {ConvertAggregated(report.aggregated, jp_week_format,
                                      aggregation[1])} :
          /\ report' = [report EXCEPT !.aggregated = call.aggregated]
          /\ IF call.exc # "None"
             THEN pc' = "raised" /\ exc' = call.exc
             ELSE pc' = "displayed" /\ exc' = exc
    /\ UNCHANGED <<args, aggregated, current, result, aggregation, search_result,
                   commits, commit_totals, pull_requests, issues, reviews,
                   reporter_vars>>

NextDisplay == DisplayAggregated

SpecDisplay == InitDisplay /\ [][NextDisplay]_vars

TypeOK ==
    /\ pc \in {"call", "fill", "sort", "raised", "done"}
    /\ exc \in {"None", "AttributeError", "ValueError", "OverflowError"}
    /\ pc = "done" =>
         result = _aggregate_by_period(data, period_type, since, until, metric_type).series
    /\ pc = "raised" =>
         _aggregate_by_period(data, period_type, since, until, metric_type).exc = exc

(***************************************************************************)
(* Vocabulary of the properties of _aggregate_by_period.                   *)
(***************************************************************************)
Done == pc = "done"
GapFill == since # None /\ until # None

\* the keys of all instants of [s, u]
PeriodKeysBetween(s, u, ptype) == {strftime(t, date_format(ptype)) : t \in s..u}

\* the record has a timestamp field holding a valid ISO string
Parses(r) == DateField(r) # None /\ DateField(r)[1].kind = "iso"
KeyOfRecord(r, ptype) == strftime(DateField(r)[1].at, date_format(ptype))
InBucket(r, k) == Parses(r) /\ KeyOfRecord(r, period_type) = k
BucketOf(k) == SelectSeq(data, LAMBDA r : InBucket(r, k))
Parseable(records) == SelectSeq(records, Parses)

RECURSIVE SumValues(_)
SumValues(series) ==
    IF series = <<>> THEN 0 ELSE Head(series)[2].n + SumValues(Tail(series))

StrictlyAscending(series) ==
    \A i \in 1..(Len(series) - 1) : StrLess(series[i][1], series[i + 1][1])

\* whole days and calendar months from since to until
WindowDays == (until[1] - since[1]) \div TicksPerDay
MonthIndex(t) == YearOf(Ordinal(t)) * 12 + MonthOf(Ordinal(t))
MonthsSpanned == MonthIndex(until[1]) - MonthIndex(since[1]) + 1

(***************************************************************************)
(* C1: with period_type 'week' and a window [since, until], the returned   *)
(* series holds the key of every week from the week of since to the week   *)
(* of until inclusive, whatever the records.                               *)
(***************************************************************************)
C1_EveryWeekOfWindowPresent ==
    (Done /\ period_type = "week" /\ GapFill) =>
        PeriodKeysBetween(since[1], until[1], "week") \subseteq Keys(result)

(***************************************************************************)
(* C2: aggregating the empty list over a window gives exactly one entry    *)
(* per calendar period of the window, each 0, and ceil(days/7) entries for *)
(* weeks, the number of months spanned for months.                         *)
(***************************************************************************)
C2_EmptyListGapFill ==
    (Done /\ data = <<>> /\ GapFill) =>
        /\ Keys(result) = PeriodKeysBetween(since[1], until[1], period_type)
        /\ Cardinality(Keys(result)) = Len(result)
        /\ \A i \in 1..Len(result) : result[i][2] = IntValue(0)
        /\ Len(result) = IF period_type = "week" THEN (WindowDays + 6) \div 7
                         ELSE MonthsSpanned

(***************************************************************************)
(* C3: with period_type 'month' and a window, the series holds the key of  *)
(* every calendar month from the month of since to the month of until, and *)
(* the gap-fill loop ends: every iteration moves current strictly forward, *)
(* towards until, which bounds it.                                         *)
(***************************************************************************)
C3_EveryMonthOfWindowPresent ==
    /\ [](  (Done /\ period_type = "month" /\ GapFill) =>
              /\ PeriodKeysBetween(since[1], until[1], "month") \subseteq Keys(result)
              /\ Cardinality(PeriodKeysBetween(since[1], until[1], "month")) = MonthsSpanned )
    /\ [][ (pc = "fill" /\ period_type = "month" /\ pc' = "fill") =>
              (current <= until[1] /\ current' > current) ]_vars

\* a window from the 31st of December, late in the day, to the early 1st of
\* a month of the next year
C3_Witness ==
    /\ Done /\ period_type = "month" /\ GapFill
    /\ MonthOf(Ordinal(since[1])) = 12 /\ DayOf(Ordinal(since[1])) = 31
    /\ since[1] % TicksPerDay > 0
    /\ YearOf(Ordinal(until[1])) = YearOf(Ordinal(since[1])) + 1
    /\ DayOf(Ordinal(until[1])) = 1 /\ until[1] % TicksPerDay = 0
    /\ Len(result) = 3

(***************************************************************************)
(* C4: a record without timestamp field, or whose timestamp is not a valid *)
(* ISO string (None and non-strings included), is dropped: the call        *)
(* returns, and returns what it returns without those records.             *)
(***************************************************************************)
C4_BadTimestampsDropped ==
    (pc \in {"done", "raised"}) =>
        /\ pc = "done"
        /\ result = _aggregate_by_period(Parseable(data), period_type, since, until,
                                         metric_type).series

(***************************************************************************)
(* C5: in count mode, when no record is dropped, the values of the series  *)
(* sum to the number of records, with and without gap fill.                *)
(***************************************************************************)
C5_CountsSumToLength ==
    (Done /\ metric_type = None /\ Parseable(data) = data) =>
        SumValues(result) = Len(data)

\* two records of one bucket, a window whose fill meets that bucket and adds others
C5_Witness ==
    /\ Done /\ metric_type = None /\ GapFill
    /\ Len(data) = 2 /\ Parseable(data) = data
    /\ KeyOfRecord(data[1], period_type) = KeyOfRecord(data[2], period_type)
    /\ KeyOfRecord(data[1], period_type)
         \in PeriodKeysBetween(since[1], until[1], period_type)
    /\ Len(result) >= 2

(***************************************************************************)
(* C6: the returned series is strictly ascending in string order of its    *)
(* keys (hence without duplicate key), in every mode.                      *)
(***************************************************************************)
C6_SortedNoDuplicates ==
    Done => StrictlyAscending(result) /\ Cardinality(Keys(result)) = Len(result)

\* records given latest first, in numeric-field mode, with gap fill
C6_Witness ==
    /\ Done /\ metric_type # None /\ GapFill
    /\ Len(data) = 2 /\ Parseable(data) = data
    /\ StrLess(KeyOfRecord(data[2], period_type), KeyOfRecord(data[1], period_type))
    /\ Len(result) >= 3

(***************************************************************************)
(* C7 as stated: in numeric-field mode the value of every entry is the sum *)
(* of the field over the records of the bucket, a number, and filled       *)
(* periods hold a 0 of that kind.                                          *)
(***************************************************************************)
C7_ValueIsTheSum ==
    (Done /\ metric_type # None) =>
        \A i \in 1..Len(result) :
            result[i][2] = IntValue(SumField(BucketOf(result[i][1]), metric_type[1]))

(***************************************************************************)
(* C7 amended: in numeric-field mode the value of a period that holds a    *)
(* record is the dict {metric_type: sum of the field over the records of   *)
(* the bucket that have it, 'count': number of records of the bucket};     *)
(* a filled period without record holds the plain integer 0.               *)
(***************************************************************************)
C7_ValueIsSumAndCount ==
    (Done /\ metric_type # None) =>
        \A i \in 1..Len(result) :
            LET bucket == BucketOf(result[i][1]) IN
            result[i][2] = IF bucket = <<>> THEN IntValue(0)
                           ELSE DictValue(SumField(bucket, metric_type[1]), Len(bucket))

\* a bucket with a record that has the field and one that lacks it, beside a
\* filled period
C7_Witness ==
    /\ Done /\ metric_type # None /\ GapFill
    /\ \E i \in 1..Len(result) :
          /\ \E r \in Range(BucketOf(result[i][1])) : metric_type[1] \in DOMAIN r
          /\ \E r \in Range(BucketOf(result[i][1])) : metric_type[1] \notin DOMAIN r
          /\ result[i][2].n > 0
    /\ \E i \in 1..Len(result) : BucketOf(result[i][1]) = <<>>

(***************************************************************************)
(* Vocabulary of the properties of get_user_activity_summary.              *)
(***************************************************************************)
Returned == pc = "returned"
ReturnedAggregated == pc = "returned" /\ "aggregated" \in DOMAIN report

\* the value a series holds for a key, 0 when it lacks the key
ValueAt(series, k) == IF k \in Keys(series) THEN Lookup(series, k).n ELSE 0

\* the commits of the period k
CommitsIn(k) ==
    SelectSeq(commits, LAMBDA r : Parses(r) /\ KeyOfRecord(r, aggregation[1]) = k)

WeekKey(year, week) == Decimal(year) \o <<Dash, UpperW>> \o TwoDigits(week)

(***************************************************************************)
(* C8: the keys of aggregated.total_contributions are the union of the     *)
(* keys of the commits, pull_requests, issues and reviews series, each     *)
(* value is the sum of the values the four series hold for the key, and    *)
(* the series is strictly ascending; A = [(2024-W01, 5)] and               *)
(* B = [(2024-W02, 3)] combine to [(2024-W01, 5), (2024-W02, 3)].          *)
(***************************************************************************)
C8_TotalContributionsIsUnionSum ==
    ReturnedAggregated =>
        LET a == report.aggregated
            total == a.total_contributions
        IN /\ Keys(total) = Keys(a.commits) \cup Keys(a.pull_requests)
                              \cup Keys(a.issues) \cup Keys(a.reviews)
           /\ \A i \in 1..Len(total) :
                total[i][2] = IntValue(ValueAt(a.commits, total[i][1])
                                       + ValueAt(a.pull_requests, total[i][1])
                                       + ValueAt(a.issues, total[i][1])
                                       + ValueAt(a.reviews, total[i][1]))
           /\ StrictlyAscending(total)
           /\ TotalContributions(<< <<>>, <<>>, <<<<WeekKey(2024, 2), IntValue(3)>>>>,
                                    <<<<WeekKey(2024, 1), IntValue(5)>>>> >>)
                = << <<WeekKey(2024, 1), IntValue(5)>>, <<WeekKey(2024, 2), IntValue(3)>> >>

\* a period only the reviews have, and a period to which several series add
C8_Witness ==
    /\ ReturnedAggregated
    /\ \E k \in Keys(report.aggregated.reviews) :
          /\ k \notin Keys(report.aggregated.commits)
          /\ ValueAt(report.aggregated.total_contributions, k) > 0
    /\ \E k \in Keys(report.aggregated.commits) :
          /\ ValueAt(report.aggregated.commits, k) > 0
          /\ ValueAt(report.aggregated.issues, k) > 0
          /\ ValueAt(report.aggregated.total_contributions, k) >= 2

(***************************************************************************)
(* C9: aggregated.code_changes has one entry per period of the union of    *)
(* the keys of the additions series and of the deletions series, in        *)
(* ascending order, and the value of an entry is the additions plus the    *)
(* deletions of the commits of the period, 0 for a period without commit.  *)
(***************************************************************************)
C9_CodeChangesSeries ==
    ReturnedAggregated =>
        LET changes == report.aggregated.code_changes
            additions_by_period ==
                _aggregate_by_period(commits, aggregation[1], since, until,
                                     Some("additions")).series
            deletions_by_period ==
                _aggregate_by_period(commits, aggregation[1], since, until,
                                     Some("deletions")).series
        IN /\ Keys(changes) = Keys(additions_by_period) \cup Keys(deletions_by_period)
           /\ StrictlyAscending(changes)
           /\ \A i \in 1..Len(changes) :
                changes[i][2] = IntValue(SumField(CommitsIn(changes[i][1]), "additions")
                                         + SumField(CommitsIn(changes[i][1]), "deletions"))

\* a period with two commits that have deletions, and a period without commit
C9_Witness ==
    /\ ReturnedAggregated
    /\ \E i \in 1..Len(report.aggregated.code_changes) :
          LET e == report.aggregated.code_changes[i] IN
          /\ Len(CommitsIn(e[1])) = 2
          /\ SumField(CommitsIn(e[1]), "deletions") > 0
          /\ e[2].n > SumField(CommitsIn(e[1]), "additions")
    /\ \E i \in 1..Len(report.aggregated.code_changes) :
          /\ CommitsIn(report.aggregated.code_changes[i][1]) = <<>>
          /\ report.aggregated.code_changes[i][2] = IntValue(0)

(***************************************************************************)
(* C10: the four counts of the summary are the lengths of the four fetched *)
(* lists, not of their previews, and total_contributions is their sum.     *)
(***************************************************************************)
C10_CountsAreListLengths ==
    Returned =>
        /\ report.summary.commits_count = Len(commits)
        /\ report.summary.pull_requests_count = Len(pull_requests)
        /\ report.summary.issues_count = Len(issues)
        /\ report.summary.reviews_count = Len(reviews)
        /\ report.summary.total_contributions =
             report.summary.commits_count + report.summary.pull_requests_count
             + report.summary.issues_count + report.summary.reviews_count

\* more commits than the preview shows, and something of every other type
C10_Witness ==
    /\ Returned
    /\ Len(commits) > PreviewSize
    /\ Len(report.details.commits) = PreviewSize
    /\ report.summary.commits_count = PreviewSize + 1
    /\ pull_requests # <<>> /\ issues # <<>> /\ reviews # <<>>

(***************************************************************************)
(* C11: summary.code_changes.additions is the sum of the additions of all  *)
(* the commits get_user_commits returned, not of the previewed ones only,  *)
(* likewise deletions, and total is their sum; a commit whose stats could  *)
(* not be fetched has additions 0 and deletions 0 and adds nothing.        *)
(***************************************************************************)
WithStats(found) == SelectSeq(found, LAMBDA f : f.stats # None)
\* the commits the search gave get_user_commits; none when it raised
CommitsFound == IF search_result.raised THEN <<>> ELSE search_result.items

RECURSIVE SumStats(_, _)
SumStats(found, field) ==
    IF found = <<>> THEN 0
    ELSE Head(found).stats[1][field] + SumStats(Tail(found), field)

C11_CodeChangesSumAllCommits ==
    Returned =>
        /\ Len(commits) = Len(CommitsFound)
        /\ report.summary.code_changes.additions = SumField(commits, "additions")
        /\ report.summary.code_changes.deletions = SumField(commits, "deletions")
        /\ report.summary.code_changes.total =
             report.summary.code_changes.additions
             + report.summary.code_changes.deletions
        /\ \A i \in 1..Len(CommitsFound) :
              CommitsFound[i].stats = None =>
                  commits[i].additions = 0 /\ commits[i].deletions = 0
        /\ report.summary.code_changes.additions
             = SumStats(WithStats(CommitsFound), "additions")
        /\ report.summary.code_changes.deletions
             = SumStats(WithStats(CommitsFound), "deletions")

\* one commit with stats and one whose stats could not be fetched
C11_Witness ==
    /\ Returned
    /\ \E i, j \in 1..Len(CommitsFound) :
          CommitsFound[i].stats = None /\ CommitsFound[j].stats # None
    /\ report.summary.code_changes.total > 0

(***************************************************************************)
(* Vocabulary of the properties of _analyze_trend: the two halves of the   *)
(* counts and the change between their averages, in exact arithmetic.      *)
(***************************************************************************)
Analyzed == pc = "analyzed"
Counts == [i \in 1..Len(data) |-> data[i][2]]
FirstHalf == SubSeq(Counts, 1, Len(data) \div 2)
SecondHalf == SubSeq(Counts, Len(data) \div 2 + 1, Len(data))
\* avg(second) - avg(first) and avg(first), both times len(first) * len(second)
ChangeTimesLens == sum(SecondHalf) * Len(FirstHalf) - sum(FirstHalf) * Len(SecondHalf)
FirstTimesLens == sum(FirstHalf) * Len(SecondHalf)
Abs(n) == IF n < 0 THEN 0 - n ELSE n
\* |percent_change| < 20/100, with percent_change 0 when avg(first) is 0
ChangeBelowThreshold ==
    sum(FirstHalf) = 0 \/ 100 * Abs(ChangeTimesLens) < 20 * FirstTimesLens
ExactTrend ==
    IF ChangeBelowThreshold THEN "stable"
    ELSE IF ChangeTimesLens > 0 THEN "increasing" ELSE "decreasing"
TrendOf(counts) == _analyze_trend(TrendData(counts)).trend

(***************************************************************************)
(* C12: for n >= 2 points the trend is the classification of               *)
(* percent_change = (avg(second) - avg(first)) / avg(first), 0 when        *)
(* avg(first) is 0, the odd element going to the second half: stable when  *)
(* |percent_change| < 0.20, else increasing when positive, else            *)
(* decreasing; a change of exactly 20% is not stable.                      *)
(***************************************************************************)
C12_TrendIsClassOfChange ==
    (Analyzed /\ Len(data) >= 2) =>
        /\ Len(SecondHalf) - Len(FirstHalf) \in {0, 1}
        /\ result.trend = ExactTrend
        /\ TrendOf(<<10, 10, 10, 10>>) = "stable"
        /\ TrendOf(<<10, 10, 20, 20>>) = "increasing"
        /\ TrendOf(<<20, 20, 10, 10>>) = "decreasing"

(***************************************************************************)
(* C13: the trend is insufficient_data for every series of length 0 or 1,  *)
(* whatever its values, and for no longer series.                          *)
(***************************************************************************)
C13_InsufficientDataIffShort ==
    Analyzed => (result.trend = "insufficient_data" <=> Len(data) < 2)

\* a single point with a large count
C13_Witness ==
    /\ Analyzed
    /\ Len(data) = 1 /\ data[1][2] > 2
    /\ result.trend = "insufficient_data"

(***************************************************************************)
(* C14: for n >= 2 points the notable-peak note is present exactly when    *)
(* max(counts) > avg(second half) * 1.5, it names the period of the        *)
(* earliest entry holding the maximum, and the trend is the one of the     *)
(* change of the averages, with or without the note.                       *)
(***************************************************************************)
EarliestMax ==
    CHOOSE i \in 1..Len(data) :
        /\ \A j \in 1..Len(data) : Counts[j] <= Counts[i]
        /\ \A j \in 1..(i - 1) : Counts[j] < Counts[i]

C14_PeakNote ==
    (Analyzed /\ Len(data) >= 2) =>
        /\ result.peak # None <=>
             2 * Len(SecondHalf) * Counts[EarliestMax] > 3 * sum(SecondHalf)
        /\ result.peak # None => result.peak[1] = PeriodOf(EarliestMax)
        /\ result.trend = Classify(PercentChange(Average(FirstHalf), Average(SecondHalf)))

\* the maximum is held twice, first after the first entry, and is a peak of a
\* series whose trend is not stable
C14_Witness ==
    /\ Analyzed
    /\ Len(data) >= 2
    /\ EarliestMax > 1
    /\ \E j \in (EarliestMax + 1)..Len(data) : Counts[j] = Counts[EarliestMax]
    /\ result.peak = Some(PeriodOf(EarliestMax))
    /\ result.trend # "stable"

(***************************************************************************)
(* Vocabulary of the properties of _convert_week_to_jp_format.             *)
(***************************************************************************)
ConvertEnded == pc \in {"converted", "raised"}
DigitValue(c) == c - 48
\* 'YYYY-Wnn' with a year of 1..9999 and a week of 00..53
WellFormedWeekKey(v) ==
    /\ v.kind = "str"
    /\ Len(v.text) = 8
    /\ \A i \in {1, 2, 3, 4, 7, 8} : v.text[i] \in Digit(0)..Digit(9)
    /\ v.text[5] = Dash /\ v.text[6] = UpperW
    /\ \E i \in 1..4 : v.text[i] # Digit(0)
    /\ DigitValue(v.text[7]) * 10 + DigitValue(v.text[8]) <= 53
\* the days of the period of a key: the days around day n with the key of n
FirstDayOfPeriodOf(n) ==
    CHOOSE first \in (n - 6)..n :
        /\ \A m \in first..n : WeekKeyOfDay(m) = WeekKeyOfDay(n)
        /\ WeekKeyOfDay(first - 1) # WeekKeyOfDay(n)
DaysEncodedAs(key) ==
    {n \in FirstKeyDay..(FirstKeyDay + KeyDays) : Str(WeekKeyOfDay(n)) = key}

(***************************************************************************)
(* C15: _convert_week_to_jp_format never raises, and returns its input     *)
(* unchanged whenever the input is not a well-formed week key.             *)
(***************************************************************************)
C15_MalformedKeyReturnedUnchanged ==
    ConvertEnded =>
        /\ pc = "converted"
        /\ ~WellFormedWeekKey(week_str) => result = week_str

(***************************************************************************)
(* C16: for every date d and k = encode(d, week), the conversion of k is   *)
(* the first calendar day of the period k, and that day encodes to k       *)
(* again, week 0 included; "2024-W01" converts to 2024-01-01.              *)
(***************************************************************************)
C16_ConversionInvertsWeekEncoding ==
    /\ (ConvertEnded /\ week_str \in EncodedKeys) =>
          /\ pc = "converted"
          /\ \A d \in DaysEncodedAs(week_str) :
                /\ result = Str(FormatDate(FirstDayOfPeriodOf(d)))
                /\ \E n \in (d - 13)..d :
                      result = Str(FormatDate(n)) /\ Str(WeekKeyOfDay(n)) = week_str
    /\ _convert_week_to_jp_format(Str(WeekKeyOfDay(_ymd2ord(2024, 1, 1)))).value
         = Some(Str(FormatDate(_ymd2ord(2024, 1, 1))))

(***************************************************************************)
(* C17: string order of period keys is chronological order: for two        *)
(* timestamps t1 <= t2 of years with four digits (1000 to 9999, where %Y   *)
(* has four digits) the key of t1 is not above the key of t2, for week     *)
(* keys (week 0 and year boundaries included) and for month keys; hence    *)
(* the sorted series lists the periods of the timestamps in chronological  *)
(* order.                                                                  *)
(***************************************************************************)
\* the timestamps of the call: the window, the gap-fill cursor, the records
Timestamps ==
    (IF since = None THEN {} ELSE {since[1]})
    \cup (IF until = None THEN {} ELSE {until[1]})
    \cup (IF pc = "fill" THEN {current} ELSE {})
    \cup {DateField(data[i])[1].at : i \in {j \in 1..Len(data) : Parses(data[j])}}
KeyOf(t, ptype) == strftime(t, date_format(ptype))
FourDigitYear(t) == YearOf(Ordinal(t)) \in 1000..MAXYEAR

C17_KeyOrderIsChronological ==
    /\ \A t1, t2 \in Timestamps : \A ptype \in PeriodTypes :
          (t1 <= t2 /\ FourDigitYear(t1) /\ FourDigitYear(t2))
          => ~StrLess(KeyOf(t2, ptype), KeyOf(t1, ptype))
    /\ Done =>
          \A t1, t2 \in Timestamps :
             (t1 <= t2 /\ FourDigitYear(t1) /\ FourDigitYear(t2)
                /\ {KeyOf(t1, period_type), KeyOf(t2, period_type)}
                             \subseteq Keys(result))
             => IndexOf(result, KeyOf(t1, period_type))
                  <= IndexOf(result, KeyOf(t2, period_type))

\* a window from the last week of a year to week 0 of the next year, with a
\* record in each
C17_Witness ==
    /\ Done /\ period_type = "week" /\ GapFill
    /\ YearOf(Ordinal(since[1])) < YearOf(Ordinal(until[1]))
    /\ \E t1, t2 \in Timestamps \ {since[1], until[1]} :
          /\ YearOf(Ordinal(t1)) < YearOf(Ordinal(t2))
          /\ WeekOfYear(Ordinal(t2)) = 0
          /\ IndexOf(result, KeyOf(t1, "week")) < IndexOf(result, KeyOf(t2, "week"))

(***************************************************************************)
(* The multi-user comparison.                                              *)
(***************************************************************************)
Reported == pc = "reported"
CompareEnded == pc \in {"reported", "raised"}
\* the dict of the i-th entry of the list
UserAt(i) == heap[users_data[i]]
TotalOf(i) == UserAt(i).summary.total_contributions
TotalActivity == SumOver(heap, users_data, "total_contributions")

\* C18: a user is labelled "High Performer" exactly when the user's total is
\* strictly greater than the average of the totals of all users, and
\* "Average" otherwise, so users whose total equals the average are "Average"
C18_HighPerformerIffAboveAverage ==
    Reported =>
       \A i \in 1..Len(users_data) :
          UserAt(i).performance_label =
             IF TotalOf(i) * Len(users_data) > TotalActivity
             THEN "High Performer" ELSE "Average"

\* two different users with contributions whose total equals the average
\* exactly
C18_Witness ==
    /\ Reported
    /\ \E i, j \in 1..Len(users_data) :
          /\ users_data[i] # users_data[j] /\ TotalOf(i) > 0
          /\ TotalOf(i) * Len(users_data) = TotalActivity
          /\ TotalOf(j) * Len(users_data) = TotalActivity
          /\ UserAt(i).performance_label = "Average"
          /\ UserAt(j).performance_label = "Average"

\* C19: a comparison of zero users does not raise: it ends with a report
\* whose average_activity and average_pr are 0
C19_ZeroUsersGiveZeroAverages ==
    (CompareEnded /\ Len(users_data) = 0) =>
       /\ Reported
       /\ result.average_activity = FloatZero
       /\ result.average_pr = FloatZero

DaysInPeriod == UserAt(1).activity_period.days
QuotientOrZero(count, by) == IF by = 0 THEN FloatZero ELSE TrueDiv(count, by)

\* the averages per day and the percentage of every user
AveragesAndPercentages ==
    \A i \in 1..Len(users_data) :
       LET user_data == UserAt(i) IN
       /\ user_data.daily_avg_activity =
             QuotientOrZero(user_data.summary.total_contributions, DaysInPeriod)
       /\ user_data.daily_avg_pr =
             QuotientOrZero(user_data.summary.pull_requests_count, DaysInPeriod)
       /\ user_data.daily_avg_commits =
             QuotientOrZero(user_data.summary.commits_count, DaysInPeriod)
       /\ user_data.activity_percentage =
             IF TotalActivity = 0 THEN FloatZero
             ELSE FloatTimes100(TrueDiv(TotalOf(i), TotalActivity))

\* the exact sum of the percentages, in units of 2^LeastExp.  The percentages
\* here are at least 1/2, so the sum stays below 2^60.
Percentages == [i \in 1..Len(users_data) |-> UserAt(i).activity_percentage]
Exps == {Percentages[i].exp : i \in {j \in 1..Len(users_data) : ~IsZero(Percentages[j])}}
LeastExp == CHOOSE e \in Exps : \A other \in Exps : e <= other
RECURSIVE BigShiftLeft(_, _)
BigShiftLeft(v, k) == IF k = 0 THEN v ELSE BigDouble(BigShiftLeft(v, k - 1))
\* n * 2^k for 0 <= n < 2^30
BigScaled(n, k) ==
    IF k >= 30 THEN <<n * 2^(k - 30), 0>>
    ELSE <<n \div 2^(30 - k), (n % 2^(30 - k)) * 2^k>>
RECURSIVE SumOfPercentages(_)
SumOfPercentages(n) ==
    IF n = 0 THEN BigZero
    ELSE BigAdd(SumOfPercentages(n - 1),
                IF IsZero(Percentages[n]) THEN BigZero
                ELSE BigShiftLeft(Percentages[n].man, Percentages[n].exp - LeastExp))
PercentSum == SumOfPercentages(Len(users_data))
Hundred == BigScaled(100, 0 - LeastExp)
PercentSumIs100 == PercentSum = Hundred
\* |sum - 100| < 2^-45
PercentSumNear100 ==
    LET off == IF BigLess(PercentSum, Hundred) THEN BigSub(Hundred, PercentSum)
               ELSE BigSub(PercentSum, Hundred)
    IN BigLess(off, BigScaled(1, 0 - 45 - LeastExp))

\* C20 as stated: the daily averages are the counts divided by the days of
\* the period, 0 for a period of 0 days; the percentage is the total divided
\* by the sum of the totals, times 100, 0 for a sum of 0; the percentages of
\* a positive sum add up to 100
C20_PercentagesAddUpTo100 ==
    Reported =>
       /\ AveragesAndPercentages
       /\ TotalActivity > 0 => PercentSumIs100

\* C20, amended: the daily averages and the percentages are those quotients,
\* as floats; the percentages of a positive sum add up to 100 up to the
\* rounding of the float operations: their exact sum is less than 2^-45 away
\* from 100
C20_PercentagesAddUpToAbout100 ==
    Reported =>
       /\ AveragesAndPercentages
       /\ TotalActivity > 0 => PercentSumNear100

\* users of a period of some days whose percentages are rounded: their sum
\* is not 100
C20_Witness ==
    /\ Reported
    /\ DaysInPeriod > 0
    /\ TotalActivity > 0
    /\ ~PercentSumIs100
    /\ \E i \in 1..Len(users_data) :
          /\ ~IsZero(UserAt(i).daily_avg_activity)
          /\ ~IsZero(UserAt(i).daily_avg_pr)
          /\ ~IsZero(UserAt(i).daily_avg_commits)

\* the series of the i-th entry, empty when it has none, and the places of
\* the entries that have values
SeriesOf(i) ==
    IF HasSeries(heap, UserAt(i)) THEN heap[UserAt(i).aggregated].total_contributions
    ELSE <<>>
ValuesOf(i) == heap[UserAt(i).aggregated].total_contributions_values
WithValuesAt == {i \in 1..Len(users_data) : HasValues(heap, UserAt(i))}
\* the count the series gives for the period: that of the last entry of the
\* period
CountFor(series, period) ==
    series[CHOOSE k \in 1..Len(series) :
              /\ series[k][1] = period
              /\ \A l \in (k + 1)..Len(series) : series[l][1] # period][2].n

RankingLists ==
    { <<"top_contributors", "total_contributions">>,
      <<"top_daily_avg_activity", "daily_avg_activity">>,
      <<"top_pr_contributors", "pull_requests_count">>,
      <<"top_daily_avg_pr", "daily_avg_pr">> }
RankingMetric(i, metric) ==
    IF metric \in {"total_contributions", "pull_requests_count"}
    THEN float(UserAt(i).summary[metric])
    ELSE UserAt(i)[metric]
\* the entry at a is ranked before the entry at b
RankedAhead(a, b, metric) ==
    \/ FloatLess(RankingMetric(b, metric), RankingMetric(a, metric))
    \/ (RankingMetric(a, metric) = RankingMetric(b, metric) /\ a < b)
IsTopOf(list, metric) ==
    /\ Len(list) = (IF Len(users_data) < 2 THEN Len(users_data) ELSE 2)
    /\ \E at \in [1..Len(list) -> 1..Len(users_data)] :
          /\ \A k \in 1..Len(list) : list[k] = users_data[at[k]]
          /\ \A k, l \in 1..Len(list) : k < l => RankedAhead(at[k], at[l], metric)
          /\ \A k \in 1..Len(list) :
                \A other \in (1..Len(users_data)) \ {at[l] : l \in 1..Len(list)} :
                   RankedAhead(at[k], other, metric)

\* C22: every ranking list holds the first min(2, number of users) users of
\* the input in descending order of its metric, users of equal metric in the
\* order of the input
C22_RankingsAreStableTopTwo ==
    Reported => \A ranking \in RankingLists : IsTopOf(result[ranking[1]], ranking[2])

\* three different users, the first two with equal totals and the third
\* with more: the third is ranked first and the first second
C22_Witness ==
    /\ Reported
    /\ Len(users_data) = 3
    /\ users_data[1] # users_data[2]
    /\ TotalOf(1) = TotalOf(2) /\ TotalOf(2) < TotalOf(3)
    /\ result.top_contributors = <<users_data[3], users_data[1]>>

DerivedFields ==
    {"color", "daily_avg_activity", "daily_avg_pr", "daily_avg_commits",
     "activity_percentage", "performance_label"}
\* the keys the call may set in the dict at ref: the derived fields of a
\* dict of the list, total_contributions_values of the 'aggregated' dict of
\* a listed user when it has a series
SetBy(ref) ==
    (IF ref \in Range(users_data) THEN DerivedFields ELSE {})
    \cup (IF \E u \in Range(users_data) :
                HasSeries(heap, heap[u]) /\ heap[u].aggregated = ref
          THEN {"total_contributions_values"} ELSE {})

\* C25: generate_html_report changes the users' data only by setting the
\* derived fields: the list and its order are as before, every dict has the
\* keys it had and those the call sets in it, and every other key of every
\* dict (user, activity_period, summary, the given aggregated series) has
\* the value it had, whether the dict is listed once, twice or not at all
C25_OnlyDerivedFieldsAdded ==
    [][(pc = "report" /\ pc' = "reported") =>
         /\ users_data' = users_data
         /\ DOMAIN heap' = DOMAIN heap
         /\ \A ref \in DOMAIN heap :
               /\ DOMAIN heap'[ref] = DOMAIN heap[ref] \cup SetBy(ref)
               /\ \A key \in (DOMAIN heap[ref]) \ SetBy(ref) :
                     heap'[ref][key] = heap[ref][key]]_vars

\* a comparison of a dict listed twice that has the fields of an earlier
\* call, whose colour is now that of its second place, with a user whose
\* series is shared with a user that is not listed and has got its values
C25_Witness ==
    /\ Reported
    /\ \E i, j, k \in 1..Len(users_data) :
          /\ i < j /\ users_data[i] = users_data[j]
          /\ DerivedFields \subseteq DOMAIN UsersHeap[users_data[i]]
          /\ UserAt(i).color = ((j - 1) % NumColors) + 1
          /\ UserAt(i).color # UsersHeap[users_data[i]].color
          /\ HasSeries(heap, UserAt(k))
          /\ "total_contributions_values" \notin DOMAIN UsersHeap[UserAt(k).aggregated]
          /\ Len(ValuesOf(k)) = Len(result.periods)
          /\ \E other \in UserRefs \ Range(users_data) :
                /\ "aggregated" \in DOMAIN UsersHeap[other]
                /\ UsersHeap[other].aggregated = UserAt(k).aggregated
                /\ heap[other] = UsersHeap[other]

\* C29: in a comparison of one or more users somebody is labelled "Average",
\* and when all users have the same total nobody is "High Performer"
C29_SomebodyIsAverage ==
    (Reported /\ Len(users_data) >= 1) =>
       /\ \E i \in 1..Len(users_data) : UserAt(i).performance_label = "Average"
       /\ (\A i, j \in 1..Len(users_data) : TotalOf(i) = TotalOf(j)) =>
             \A i \in 1..Len(users_data) : UserAt(i).performance_label = "Average"

\* a single user with contributions, labelled "Average"
C29_Witness ==
    /\ Reported
    /\ Len(users_data) = 1
    /\ TotalOf(1) > 0
    /\ UserAt(1).performance_label = "Average"

(***************************************************************************)
(* The order of the steps of get_user_activity_summary, and the two        *)
(* filters of an issue search.                                             *)
(***************************************************************************)
\* the fetches of lines 422-425 that have returned
FetchesReturned ==
    CASE pc = "start" -> 0
      [] pc = "commits" -> 1
      [] pc = "pull_requests" -> 2
      [] pc = "issues" -> 3
      [] OTHER -> 4

\* C23: the summary counts and the aggregated series are computed in a step
\* that comes after the return of all four fetches, from the lists as the
\* fetches returned them
C23_AggregationAfterAllFetches ==
    [][(report' # report \/ pc' \in {"returned", "raised"}) =>
          /\ FetchesReturned = 4
          /\ UNCHANGED <<commits, pull_requests, issues, reviews>>
          /\ pc' = "returned" =>
                /\ report'.summary.commits_count = Len(commits)
                /\ report'.summary.pull_requests_count = Len(pull_requests)
                /\ report'.summary.issues_count = Len(issues)
                /\ report'.summary.reviews_count = Len(reviews)]_vars

\* a returned report with aggregated series, all four lists fetched non-empty
C23_Witness ==
    /\ pc = "returned"
    /\ "aggregated" \in DOMAIN report
    /\ commits # <<>> /\ pull_requests # <<>> /\ issues # <<>> /\ reviews # <<>>
    /\ report.summary.total_contributions
          = Len(commits) + Len(pull_requests) + Len(issues) + Len(reviews)

Filtered == pc = "issues_of_search"
ItemsOfSearch == Range(search_result.items)
Truthy(marker) == marker = "set"

\* C24: of the items of a search, get_user_pull_requests returns those with
\* a truthy pull_request marker and get_user_issues those without: no item
\* is returned by both, and the two lists count every item once
C24_PullRequestsAndIssuesAreDisjoint ==
    Filtered =>
       /\ \A item \in ItemsOfSearch :
             /\ [number |-> item.number] \in Range(pull_requests)
                   <=> Truthy(item.marker)
             /\ [number |-> item.number] \in Range(issues)
                   <=> ~Truthy(item.marker)
       /\ Range(pull_requests) \cap Range(issues) = {}
       /\ Len(pull_requests) + Len(issues) = Cardinality(ItemsOfSearch)

\* a search with a pull request, an item whose marker is None and an item
\* without the attribute
C24_Witness ==
    /\ Filtered
    /\ ~search_result.raised
    /\ {item.marker : item \in ItemsOfSearch} = {"set", "none", "absent"}
    /\ Len(pull_requests) = 1 /\ Len(issues) = 2

(***************************************************************************)
(* The aggregation and the order and the window of the records.            *)
(***************************************************************************)
\* the ways to reorder a list of n records
Orders(n) == {f \in [1..n -> 1..n] : \A i, j \in 1..n : f[i] = f[j] => i = j}
Reordered(records, f) == [i \in 1..Len(records) |-> records[f[i]]]

\* C26: aggregating the records again under the same parameters, in the
\* same or in any other order, gives the same outcome (the same series, or
\* the same exception), and the call leaves the record list as it was
C26_OrderIndependent ==
    /\ [](pc \in {"done", "raised"} =>
            \A f \in Orders(Len(data)) :
               \E again \in {_aggregate_by_period(Reordered(data, f), period_type,
                                                  since, until, metric_type)} :
                  IF pc = "done"
                  THEN again = [exc |-> "None", series |-> result]
                  ELSE again.exc = exc)
    /\ [][data' = data]_vars

\* two different records of one bucket in numeric-field mode, the later one
\* given first
C26_Witness ==
    /\ Done /\ metric_type # None
    /\ Len(data) = 2 /\ Parseable(data) = data
    /\ KeyOfRecord(data[1], period_type) = KeyOfRecord(data[2], period_type)
    /\ metric_type[1] \in DOMAIN data[1] /\ metric_type[1] \in DOMAIN data[2]
    /\ data[1][metric_type[1]] # data[2][metric_type[1]]
    /\ DateField(data[1])[1].at > DateField(data[2])[1].at

\* the keys the gap fill of a window makes: of since and of every seventh
\* day after it, or of since and of the first instant of every later month
GapFillKeys(ptype) ==
    IF ptype = "week"
    THEN {KeyOf(since[1] + timedelta(7 * k), "week") :
             k \in 0..((until[1] - since[1]) \div timedelta(7))}
    ELSE {KeyOf(t, "month") :
             t \in {since[1]}
                   \cup {u \in since[1]..until[1] :
                            DayOf(Ordinal(u)) = 1 /\ u % TicksPerDay = 0}}
\* the four lists fetched and the series made of each
SeriesNames == {"commits", "pull_requests", "issues", "reviews"}
Fetched(name) ==
    CASE name = "commits" -> commits
      [] name = "pull_requests" -> pull_requests
      [] name = "issues" -> issues
      [] name = "reviews" -> reviews
InPeriod(records, k) ==
    SelectSeq(records, LAMBDA r : Parses(r) /\ KeyOfRecord(r, aggregation[1]) = k)
OutsideWindow(r) ==
    Parses(r) /\ (DateField(r)[1].at < since[1] \/ DateField(r)[1].at > until[1])

\* C27: the aggregation does not filter by the window: the keys of every
\* series are the keys of the gap fill and the keys of all records with a
\* parseable timestamp, a record outside [since, until] is counted in the
\* bucket of its own period, and is part of total_contributions
C27_RecordsOutsideWindowCounted ==
    ReturnedAggregated =>
       \A name \in SeriesNames :
          LET series == report.aggregated[name] IN
          /\ Keys(series) = GapFillKeys(aggregation[1])
                \cup {KeyOfRecord(r, aggregation[1]) :
                         r \in Range(Parseable(Fetched(name)))}
          /\ \A k \in Keys(series) :
                /\ ValueAt(series, k) = Len(InPeriod(Fetched(name), k))
                /\ ValueAt(report.aggregated.total_contributions, k)
                      >= Len(InPeriod(Fetched(name), k))

\* a review from before the window, in a period the gap fill does not make
C27_Witness ==
    /\ ReturnedAggregated
    /\ \E r \in Range(reviews) :
          /\ OutsideWindow(r)
          /\ KeyOfRecord(r, aggregation[1]) \notin GapFillKeys(aggregation[1])
          /\ ValueAt(report.aggregated.reviews, KeyOfRecord(r, aggregation[1])) >= 1
          /\ ValueAt(report.aggregated.total_contributions,
                     KeyOfRecord(r, aggregation[1])) >= 1

Dropped(records) == Len(records) - Len(Parseable(records))
AllDropped == Dropped(commits) + Dropped(pull_requests) + Dropped(issues)
              + Dropped(reviews)
CountOf(name) ==
    CASE name = "commits" -> report.summary.commits_count
      [] name = "pull_requests" -> report.summary.pull_requests_count
      [] name = "issues" -> report.summary.issues_count
      [] name = "reviews" -> report.summary.reviews_count

\* C28: with aggregation, the values of the series of a type sum to the
\* summary count of the type less the records of the type dropped for their
\* timestamp, and those of total_contributions to summary.total_contributions
\* less all dropped records: never more than the summary count, and equal
\* when nothing is dropped
C28_SeriesSumIsCountLessDropped ==
    ReturnedAggregated =>
       /\ \A name \in SeriesNames :
             /\ SumValues(report.aggregated[name])
                   = CountOf(name) - Dropped(Fetched(name))
             /\ SumValues(report.aggregated[name]) <= CountOf(name)
       /\ SumValues(report.aggregated.total_contributions)
             = report.summary.total_contributions - AllDropped
       /\ SumValues(report.aggregated.total_contributions)
             <= report.summary.total_contributions
       /\ AllDropped = 0 =>
             SumValues(report.aggregated.total_contributions)
                = report.summary.total_contributions

\* a review dropped for its timestamp beside records of every type
C28_Witness ==
    /\ ReturnedAggregated
    /\ Dropped(reviews) = 1 /\ AllDropped = 1
    /\ commits # <<>> /\ pull_requests # <<>> /\ issues # <<>>
    /\ SumValues(report.aggregated.total_contributions)
          = report.summary.total_contributions - 1
    /\ SumValues(report.aggregated.total_contributions) >= 3

(***************************************************************************)
(* The summary command's conversion of the week keys of a series.          *)
(***************************************************************************)
JpWeekConversion ==
    pc = "display" /\ pc' = "displayed" /\ jp_week_format /\ aggregation = Some("week")

\* C30: the conversion of a week-aggregated series keeps the length and the
\* values of the series, and its labels are in ascending order and pairwise
\* distinct: two week keys of a series never become the same start date
C30_ConvertedLabelsAscendingDistinct ==
    [][JpWeekConversion =>
         \A activity_type \in DOMAIN report.aggregated :
            LET series == report.aggregated[activity_type]
                shown == report'.aggregated[activity_type]
            IN /\ Len(shown) = Len(series)
               /\ \A i \in 1..Len(series) : shown[i][2] = series[i][2]
               /\ \A i, j \in 1..Len(shown) :
                     i < j => StrLess(shown[i][1], shown[j][1])]_vars

====
